---------------------------- MODULE Spec2Model ----------------------------
(***************************************************************************)
(* A model of starlite-multipart: the sans-I/O multipart/form-data decoder *)
(* (starlite_multipart/decoder.py), its header parsers (utils.py) and the  *)
(* encoder (starlite_multipart/encoder.py).                                *)
(*                                                                         *)
(* Bytes and characters are integers: a byte is its value 0..255 and a     *)
(* character is its code point, so that latin-1 decoding maps a byte to    *)
(* the character of the same number.  Byte strings and strings are         *)
(* sequences of such integers.  Positions held in the state                *)
(* (search_position) are 0-based as in the code; operators on sequences    *)
(* take 1-based indices.                                                   *)
(***************************************************************************)
EXTENDS Integers, Sequences, FiniteSets, TLC

(***************************************************************************)
(* Character codes.                                                        *)
(***************************************************************************)
Asc(ch) ==
    CASE ch = "\t" -> 9  [] ch = "\n" -> 10 [] ch = "\r" -> 13
      [] ch = " " -> 32  [] ch = "!" -> 33  [] ch = "\"" -> 34
      [] ch = "%" -> 37  [] ch = "'" -> 39  [] ch = "*" -> 42
      [] ch = "," -> 44  [] ch = "-" -> 45  [] ch = "." -> 46
      [] ch = "/" -> 47  [] ch = "0" -> 48  [] ch = "1" -> 49
      [] ch = "2" -> 50  [] ch = "3" -> 51  [] ch = "4" -> 52
      [] ch = "5" -> 53  [] ch = "6" -> 54  [] ch = "7" -> 55
      [] ch = "8" -> 56  [] ch = "9" -> 57  [] ch = ":" -> 58
      [] ch = ";" -> 59  [] ch = "=" -> 61  [] ch = "A" -> 65
      [] ch = "B" -> 66  [] ch = "C" -> 67  [] ch = "D" -> 68
      [] ch = "E" -> 69  [] ch = "F" -> 70  [] ch = "G" -> 71
      [] ch = "H" -> 72  [] ch = "I" -> 73  [] ch = "J" -> 74
      [] ch = "K" -> 75  [] ch = "L" -> 76  [] ch = "M" -> 77
      [] ch = "N" -> 78  [] ch = "O" -> 79  [] ch = "P" -> 80
      [] ch = "Q" -> 81  [] ch = "R" -> 82  [] ch = "S" -> 83
      [] ch = "T" -> 84  [] ch = "U" -> 85  [] ch = "V" -> 86
      [] ch = "W" -> 87  [] ch = "X" -> 88  [] ch = "Y" -> 89
      [] ch = "Z" -> 90  [] ch = "\\" -> 92 [] ch = "_" -> 95
      [] ch = "a" -> 97  [] ch = "b" -> 98  [] ch = "c" -> 99
      [] ch = "d" -> 100 [] ch = "e" -> 101 [] ch = "f" -> 102
      [] ch = "g" -> 103 [] ch = "h" -> 104 [] ch = "i" -> 105
      [] ch = "j" -> 106 [] ch = "k" -> 107 [] ch = "l" -> 108
      [] ch = "m" -> 109 [] ch = "n" -> 110 [] ch = "o" -> 111
      [] ch = "p" -> 112 [] ch = "q" -> 113 [] ch = "r" -> 114
      [] ch = "s" -> 115 [] ch = "t" -> 116 [] ch = "u" -> 117
      [] ch = "v" -> 118 [] ch = "w" -> 119 [] ch = "x" -> 120
      [] ch = "y" -> 121 [] ch = "z" -> 122

\* The byte string (or string) written as a tuple of one-character strings.
Str(s) == [i \in 1..Len(s) |-> Asc(s[i])]

CR == 13
LF == 10
CRLF == <<CR, LF>>
DASH == 45
COLON == 58
QUOTE == 34
BACKSLASH == 92

Min(S) == CHOOSE m \in S : \A n \in S : m <= n
Max2(a, b) == IF a >= b THEN a ELSE b
Min2(a, b) == IF a <= b THEN a ELSE b

\* buf[i:] and buf[i:j] of the code, with 1-based i and exclusive 1-based j.
From(buf, i) == SubSeq(buf, i, Len(buf))
Upto(buf, j) == SubSeq(buf, 1, j - 1)

StartsWith(buf, i, pat) ==
    /\ i + Len(pat) - 1 <= Len(buf)
    /\ \A k \in 1..Len(pat) : buf[i + k - 1] = pat[k]

RECURSIVE Flatten(_)
Flatten(ss) == IF ss = <<>> THEN <<>> ELSE Head(ss) \o Flatten(Tail(ss))

(***************************************************************************)
(* starlite_multipart/constants.py is not among the source files; the      *)
(* four constants the decoder imports from it are taken from section 4.1   *)
(* of the specification: a line break is CRLF, LF or CR; a blank line is   *)
(* CRLF CRLF, CR CR or LF LF; the search slack is 8 bytes.                 *)
(***************************************************************************)
SEARCH_BUFFER_LENGTH == 8

\* LINE_BREAK = (?:\r\n|\n|\r) tried at index i: the length matched, 0 for none.
LINE_BREAK(buf, i) ==
    IF i > Len(buf) THEN 0
    ELSE IF buf[i] = CR THEN (IF i < Len(buf) /\ buf[i + 1] = LF THEN 2 ELSE 1)
    ELSE IF buf[i] = LF THEN 1
    ELSE 0

\* BLANK_LINE_RE = (?:\r\n\r\n|\r\r|\n\n) tried at index i: the length matched.
BLANK_LINE_AT(buf, i) ==
    IF StartsWith(buf, i, <<CR, LF, CR, LF>>) THEN 4
    ELSE IF StartsWith(buf, i, <<CR, CR>>) THEN 2
    ELSE IF StartsWith(buf, i, <<LF, LF>>) THEN 2
    ELSE 0

NoMatch == [ok |-> FALSE, start |-> 0, end |-> 0, final |-> FALSE]

\* BLANK_LINE_RE.search(buffer, pos): start is the index of the first byte
\* matched, end the index of the first byte after the match.
BLANK_LINE_RE_search(buf, pos) ==
    LET S == {i \in (pos + 1)..Len(buf) : BLANK_LINE_AT(buf, i) > 0}
    IN  IF S = {} THEN NoMatch
        ELSE [ok |-> TRUE, start |-> Min(S),
              end |-> Min(S) + BLANK_LINE_AT(buf, Min(S)), final |-> FALSE]

\* [^\S\n\r] of a bytes pattern: ASCII whitespace other than CR and LF.
IsHorizontalSpace(b) == b \in {9, 11, 12, 32}

RECURSIVE SkipHorizontalSpace(_, _)
SkipHorizontalSpace(buf, i) ==
    IF i <= Len(buf) /\ IsHorizontalSpace(buf[i])
    THEN SkipHorizontalSpace(buf, i + 1) ELSE i


(***************************************************************************)
(* The two delimiter patterns of MultipartDecoder.__init__.                *)
(***************************************************************************)
DASHES == <<DASH, DASH>>

\* A variant of group 1 that lets anything follow the boundary.
DelimiterSuffix_any(buf, j) ==
    IF StartsWith(buf, j, DASHES)
    THEN LET k == SkipHorizontalSpace(buf, j + 2)
         IN  [ok |-> TRUE, end |-> k + LINE_BREAK(buf, k), final |-> TRUE]
    ELSE LET k == SkipHorizontalSpace(buf, j)
         IN  [ok |-> TRUE, end |-> k + LINE_BREAK(buf, k), final |-> FALSE]

\* Group 1 of both patterns, (--[^\S\n\r]*LINE_BREAK?|[^\S\n\r]*LINE_BREAK),
\* tried at index j.  The first alternative is taken whenever "--" follows
\* (everything after it is optional), and only then does group 1 start
\* with "--".
DelimiterSuffix(buf, j) ==
    IF StartsWith(buf, j, DASHES)
    THEN LET k == SkipHorizontalSpace(buf, j + 2)
         IN  [ok |-> TRUE, end |-> k + LINE_BREAK(buf, k), final |-> TRUE]
    ELSE LET k == SkipHorizontalSpace(buf, j)
         IN  IF LINE_BREAK(buf, k) > 0
             THEN [ok |-> TRUE, end |-> k + LINE_BREAK(buf, k), final |-> FALSE]
             ELSE [ok |-> FALSE, end |-> 0, final |-> FALSE]

\* --<boundary><group 1> tried at index i.
DelimiterBody(boundary, buf, i) ==
    IF StartsWith(buf, i, DASHES \o boundary)
    THEN DelimiterSuffix(buf, i + 2 + Len(boundary))
    ELSE [ok |-> FALSE, end |-> 0, final |-> FALSE]

\* boundary_re tried at index i: the line break is required.
boundary_re_at(boundary, buf, i) ==
    IF LINE_BREAK(buf, i) > 0
    THEN DelimiterBody(boundary, buf, i + LINE_BREAK(buf, i))
    ELSE [ok |-> FALSE, end |-> 0, final |-> FALSE]

\* preamble_re tried at index i: the line break is optional (tried first).
preamble_re_at(boundary, buf, i) ==
    IF boundary_re_at(boundary, buf, i).ok
    THEN boundary_re_at(boundary, buf, i)
    ELSE DelimiterBody(boundary, buf, i)

preamble_re_search(boundary, buf, pos) ==
    LET S == {i \in (pos + 1)..Len(buf) : preamble_re_at(boundary, buf, i).ok}
    IN  IF S = {} THEN NoMatch
        ELSE [ok |-> TRUE, start |-> Min(S),
              end |-> preamble_re_at(boundary, buf, Min(S)).end,
              final |-> preamble_re_at(boundary, buf, Min(S)).final]

boundary_re_search(boundary, buf) ==
    LET S == {i \in 1..Len(buf) : boundary_re_at(boundary, buf, i).ok}
    IN  IF S = {} THEN NoMatch
        ELSE [ok |-> TRUE, start |-> Min(S),
              end |-> boundary_re_at(boundary, buf, Min(S)).end,
              final |-> boundary_re_at(boundary, buf, Min(S)).final]

\* buffer.find(pat) != -1
Contains(buf, pat) == \E i \in 1..Len(buf) : StartsWith(buf, i, pat)

(***************************************************************************)
(* utils.get_buffer_last_newline: min(rindex LF, rindex CR), the buffer    *)
(* length standing in for an absent one.  The result is a 0-based index.   *)
(***************************************************************************)
rindex(buf, b) ==
    LET S == {i \in 1..Len(buf) : buf[i] = b}
    IN  IF S = {} THEN Len(buf) ELSE (CHOOSE m \in S : \A n \in S : n <= m) - 1

\* A variant that holds nothing back: the whole buffer counts as data.
get_buffer_last_newline_whole(buf) == Len(buf)

get_buffer_last_newline(buf) == Min2(rindex(buf, LF), rindex(buf, CR))

(***************************************************************************)
(* utils.parse_headers                                                     *)
(***************************************************************************)
\* bytes.strip(): ASCII whitespace.
IsBytesSpace(b) == b \in {9, 10, 11, 12, 13, 32}
\* str.strip() and \s of a str pattern, for characters up to 255.
IsStrSpace(c) == c \in {9, 10, 11, 12, 13, 28, 29, 30, 31, 32, 133, 160}

RECURSIVE lstrip(_)
lstrip(s) == IF s # <<>> /\ IsStrSpace(Head(s)) THEN lstrip(Tail(s)) ELSE s
RECURSIVE rstrip(_)
rstrip(s) ==
    IF s # <<>> /\ IsStrSpace(s[Len(s)]) THEN rstrip(Upto(s, Len(s))) ELSE s
strip(s) == rstrip(lstrip(s))

\* RFC2231_HEADER_CONTINUATION_RE.sub(b" ", data): a line break followed by
\* a space or a tab becomes one space.
RECURSIVE fold_continuations(_, _)
fold_continuations(data, i) ==
    IF i > Len(data) THEN <<>>
    ELSE LET l == LINE_BREAK(data, i)
         IN  IF l > 0 /\ i + l <= Len(data) /\ data[i + l] \in {32, 9}
             THEN <<32>> \o fold_continuations(data, i + l + 1)
             ELSE <<data[i]>> \o fold_continuations(data, i + 1)

\* bytes.splitlines(): lines end at CRLF, LF or CR; no line after a final
\* terminator.
RECURSIVE splitlines(_, _, _)
splitlines(data, i, line) ==
    IF i > Len(data) THEN (IF line = <<>> THEN <<>> ELSE <<line>>)
    ELSE IF LINE_BREAK(data, i) > 0
         THEN <<line>> \o splitlines(data, i + LINE_BREAK(data, i), <<>>)
         ELSE splitlines(data, i + 1, Append(line, data[i]))

\* str.split(":", 1): the index of the first colon, 0 for none.
find(s, c) ==
    LET S == {i \in 1..Len(s) : s[i] = c} IN IF S = {} THEN 0 ELSE Min(S)

\* headers[name] = value on an insertion-ordered dict, kept as a sequence of
\* <<name, value>> pairs.
dict_has(d, k) == \E i \in 1..Len(d) : d[i][1] = k
dict_set(d, k, v) ==
    IF dict_has(d, k)
    THEN [i \in 1..Len(d) |-> IF d[i][1] = k THEN <<k, v>> ELSE d[i]]
    ELSE Append(d, <<k, v>>)

\* Python's None where a string is expected.
None == <<-1>>

dict_get(d, k, default) ==
    IF dict_has(d, k) THEN d[CHOOSE i \in 1..Len(d) : d[i][1] = k][2]
    ELSE default

RECURSIVE headers_of_lines(_, _)
headers_of_lines(lines, headers) ==
    IF lines = <<>> THEN [ok |-> TRUE, headers |-> headers]
    ELSE LET line == Head(lines)
             c == find(line, COLON)
         IN  IF \A i \in 1..Len(line) : IsBytesSpace(line[i])
             THEN headers_of_lines(Tail(lines), headers)
             ELSE IF c = 0
             \* split gives one element: "not enough values to unpack"
             THEN [ok |-> FALSE, headers |-> <<>>]
             ELSE headers_of_lines(Tail(lines),
                      dict_set(headers, strip(Upto(line, c)),
                               strip(From(line, c + 1))))

parse_headers(data) ==
    headers_of_lines(splitlines(fold_continuations(data, 1), 1, <<>>), <<>>)

(***************************************************************************)
(* utils.parse_options_header and its helpers (header_parser.py).          *)
(***************************************************************************)
\* The first index >= i of s whose character is not in the class P, or
\* Len(s) + 1: where a greedy P* started at i stops.
Span(P(_), s, i) ==
    LET S == {j \in i..Len(s) : ~P(s[j])}
    IN  IF S = {} THEN Max2(i, Len(s) + 1) ELSE Min(S)

IsDigit(c) == c \in 48..57
IsHexDigit(c) == c \in (48..57) \cup (65..70) \cup (97..102)
HexValue(c) == IF c <= 57 THEN c - 48 ELSE IF c <= 70 THEN c - 55 ELSE c - 87

\* str.lower() for characters up to 255.
LowerChar(c) ==
    IF c \in 65..90 \/ (c \in 192..222 /\ c # 215) THEN c + 32 ELSE c
lower(s) == [i \in 1..Len(s) |-> LowerChar(s[i])]

\* str.replace(old, new) for a two-character old and a one-character new.
RECURSIVE replace2(_, _, _)
replace2(s, old, new) ==
    IF s = <<>> THEN <<>>
    ELSE IF StartsWith(s, 1, old) THEN <<new>> \o replace2(From(s, 3), old, new)
    ELSE <<Head(s)>> \o replace2(Tail(s), old, new)

unquote_header_value(value, is_filename) ==
    IF value # <<>> /\ value[1] = QUOTE /\ value[Len(value)] = QUOTE
    THEN LET inner == SubSeq(value, 2, Len(value) - 1)
         IN  IF ~is_filename \/ ~StartsWith(inner, 1, <<BACKSLASH, BACKSLASH>>)
             THEN replace2(replace2(inner, <<BACKSLASH, BACKSLASH>>, BACKSLASH),
                           <<BACKSLASH, QUOTE>>, QUOTE)
             ELSE inner
    ELSE value

\* "[^"\\]*(?:\\.[^"\\]*)*" with the opening quote before index j: the index
\* after the closing quote, 0 when the string is not closed.
RECURSIVE QuotedEnd(_, _)
QuotedEnd(s, j) ==
    IF j > Len(s) THEN 0
    ELSE IF s[j] = QUOTE THEN j + 1
    ELSE IF s[j] = BACKSLASH
         THEN (IF j + 1 > Len(s) \/ s[j + 1] = LF THEN 0 ELSE QuotedEnd(s, j + 2))
    ELSE QuotedEnd(s, j + 1)

\* (?:(?P<encoding>[^\s]+?)'(?P<language>[^\s]*?)')? tried at index i.
EncodingMatch(s, i) ==
    LET r  == Span(LAMBDA c : ~IsStrSpace(c), s, i)
        Q1 == {j \in (i + 1)..(r - 1) : s[j] = 39}
        q1 == IF Q1 = {} THEN 0 ELSE Min(Q1)
        Q2 == {j \in (q1 + 1)..(r - 1) : s[j] = 39}
    IN  IF Q1 = {} \/ Q2 = {} THEN [ok |-> FALSE, encoding |-> None, end |-> i]
        ELSE [ok |-> TRUE, encoding |-> SubSeq(s, i, q1 - 1), end |-> Min(Q2) + 1]

NoPiece ==
    [ok |-> FALSE, end |-> 0, key |-> <<>>, count |-> FALSE,
     encoding |-> None, value |-> None]

\* _option_header_piece_re.match(rest), the pattern taken group by group,
\* left to right; each operator receives the indices found so far.
\*   k: where the key starts, kEnd: where it ends, c: where the continuation
\*   index ends (kEnd when there is none), w: the first non-space after it,
\*   enc: the optional encoding, vEnd: where the value ends.
piece_result(rest, k, kEnd, c, enc, vEnd) ==
    [ok |-> TRUE, end |-> Span(IsStrSpace, rest, vEnd),
     key |-> SubSeq(rest, k, kEnd - 1), count |-> c > kEnd,
     encoding |-> enc.encoding,
     value |-> IF vEnd > enc.end THEN SubSeq(rest, enc.end, vEnd - 1) ELSE None]

\* (?P<value>"..."|[^;,]+)? started at v1
piece_value_end(rest, v1) ==
    IF v1 <= Len(rest) /\ rest[v1] = QUOTE /\ QuotedEnd(rest, v1 + 1) > 0
    THEN QuotedEnd(rest, v1 + 1)
    ELSE Span(LAMBDA ch : ch \notin {59, 44}, rest, v1)

piece_from_encoding(rest, k, kEnd, c, enc) ==
    piece_result(rest, k, kEnd, c, enc, piece_value_end(rest, enc.end))

\* (?:\*\s*=\s*(?:encoding'language')?|=\s*) with eq the index of "="
piece_from_equals(rest, k, kEnd, c, w, star, eq) ==
    IF ~(eq <= Len(rest) /\ rest[eq] = 61)
    THEN [ok |-> TRUE, end |-> w, key |-> SubSeq(rest, k, kEnd - 1),
          count |-> c > kEnd, encoding |-> None, value |-> None]
    ELSE piece_from_encoding(rest, k, kEnd, c,
             IF star THEN EncodingMatch(rest, Span(IsStrSpace, rest, eq + 1))
             ELSE [ok |-> FALSE, encoding |-> None,
                   end |-> Span(IsStrSpace, rest, eq + 1)])

piece_from_space(rest, k, kEnd, c, w) ==
    LET w2   == Span(IsStrSpace, rest, w + 1)
        star == w <= Len(rest) /\ rest[w] = 42 /\ w2 <= Len(rest) /\ rest[w2] = 61
    IN  piece_from_equals(rest, k, kEnd, c, w, star, IF star THEN w2 ELSE w)

\* (?:\*(?P<count>\d+))? started at kEnd
piece_count_end(rest, kEnd) ==
    IF kEnd <= Len(rest) /\ rest[kEnd] = 42
       /\ Span(IsDigit, rest, kEnd + 1) > kEnd + 1
    THEN Span(IsDigit, rest, kEnd + 1)
    ELSE kEnd

piece_from_count(rest, k, kEnd, c) ==
    piece_from_space(rest, k, kEnd, c, Span(IsStrSpace, rest, c))

\* (?P<key>"..."|[^\s;,=*]+) started at k
piece_key_end(rest, k) ==
    IF k <= Len(rest) /\ rest[k] = QUOTE /\ QuotedEnd(rest, k + 1) > 0
    THEN QuotedEnd(rest, k + 1)
    ELSE Span(LAMBDA c : ~IsStrSpace(c) /\ c \notin {59, 44, 61, 42}, rest, k)

piece_from_key(rest, k, kEnd) ==
    IF kEnd = k THEN NoPiece
    ELSE piece_from_count(rest, k, kEnd, piece_count_end(rest, kEnd))

\* ;\s*,?\s*
piece_key_start(rest) ==
    LET a == Span(IsStrSpace, rest, 2)
    IN  Span(IsStrSpace, rest, IF a <= Len(rest) /\ rest[a] = 44 THEN a + 1 ELSE a)

piece_at(rest, k) == piece_from_key(rest, k, piece_key_end(rest, k))

option_header_piece(rest) ==
    IF rest = <<>> \/ rest[1] # 59 THEN NoPiece
    ELSE piece_at(rest, piece_key_start(rest))

\* str.encode("utf-8") for characters below 2048 (header text is decoded as
\* latin-1, so its characters are below 256).
Utf8EncodeChar(c) ==
    IF c < 128 THEN <<c>> ELSE <<192 + (c \div 64), 128 + (c % 64)>>
Utf8Encode(s) == Flatten([i \in 1..Len(s) |-> Utf8EncodeChar(s[i])])

\* urllib.parse.unquote_to_bytes on the UTF-8 bytes of the string: "%" and
\* two hex digits become one byte, any other "%" stays.
RECURSIVE percent_decode(_)
percent_decode(b) ==
    IF b = <<>> THEN <<>>
    ELSE IF b[1] = 37 /\ Len(b) >= 3 /\ IsHexDigit(b[2]) /\ IsHexDigit(b[3])
         THEN <<16 * HexValue(b[2]) + HexValue(b[3])>> \o percent_decode(From(b, 4))
    ELSE <<Head(b)>> \o percent_decode(Tail(b))
unquote_to_bytes(s) == percent_decode(Utf8Encode(s))

IsCont(b) == b \in 128..191

\* bytes.decode("utf-8"), strict: [ok, text].
RECURSIVE Utf8Decode(_)
Utf8Decode(b) ==
    IF b = <<>> THEN [ok |-> TRUE, text |-> <<>>]
    ELSE
    LET b1 == b[1]
        n  == IF b1 < 128 THEN 1
              ELSE IF b1 \in 194..223 THEN 2
              ELSE IF b1 \in 224..239 THEN 3
              ELSE IF b1 \in 240..244 THEN 4
              ELSE 0
        wellFormed ==
            /\ n > 0 /\ Len(b) >= n
            /\ \A i \in 2..n : IsCont(b[i])
            /\ (b1 = 224 => b[2] >= 160)
            /\ (b1 = 237 => b[2] <= 159)
            /\ (b1 = 240 => b[2] >= 144)
            /\ (b1 = 244 => b[2] <= 143)
        cp == CASE n = 1 -> b1
                [] n = 2 -> (b1 - 192) * 64 + (b[2] - 128)
                [] n = 3 -> (b1 - 224) * 4096 + (b[2] - 128) * 64 + (b[3] - 128)
                [] OTHER -> (b1 - 240) * 262144 + (b[2] - 128) * 4096
                            + (b[3] - 128) * 64 + (b[4] - 128)
        rest == IF wellFormed THEN Utf8Decode(From(b, n + 1))
                ELSE [ok |-> FALSE, text |-> <<>>]
    IN  IF wellFormed /\ rest.ok
        THEN [ok |-> TRUE, text |-> <<cp>> \o rest.text]
        ELSE [ok |-> FALSE, text |-> <<>>]

\* The codec names Python resolves, compared as codecs.lookup does (case
\* ignored); any other name raises LookupError.
Utf8Names == {Str(<<"u","t","f","-","8">>), Str(<<"u","t","f","8">>)}
Latin1Names == {Str(<<"l","a","t","i","n","-","1">>), Str(<<"l","a","t","i","n","1">>)}
AsciiNames == {Str(<<"a","s","c","i","i">>)}

\* bytes.decode(encoding): [ok, text]; ok is false for LookupError and
\* UnicodeDecodeError.
decode(b, encoding) ==
    IF lower(encoding) \in Utf8Names THEN Utf8Decode(b)
    ELSE IF lower(encoding) \in Latin1Names THEN [ok |-> TRUE, text |-> b]
    ELSE IF lower(encoding) \in AsciiNames
         THEN [ok |-> \A i \in 1..Len(b) : b[i] < 128, text |-> b]
    ELSE [ok |-> FALSE, text |-> <<>>]

FILENAME == Str(<<"f","i","l","e","n","a","m","e">>)
NAME == Str(<<"n","a","m","e">>)

\* The while-loop over rest of parse_options_header: [ok, options]; ok is
\* false when the loop raises (an undecodable value, an unknown codec, or a
\* continuation appended to a None value).  m is the match of the piece
\* pattern, encoding the encoding in force, option the lower-cased key,
\* decoded the value after unquoting and decoding.
RECURSIVE parse_options(_, _, _)

store_option(rest, options, m, continued_encoding, option, decoded) ==
    IF ~decoded.ok THEN [ok |-> FALSE, options |-> <<>>]
    ELSE IF m.count
    THEN IF decoded.text = None
         THEN parse_options(From(rest, m.end), options, continued_encoding)
         ELSE IF dict_get(options, option, <<>>) = None
         THEN [ok |-> FALSE, options |-> <<>>]
         ELSE parse_options(From(rest, m.end),
                  dict_set(options, option,
                           dict_get(options, option, <<>>) \o decoded.text),
                  continued_encoding)
    ELSE parse_options(From(rest, m.end),
             dict_set(options, option, decoded.text), continued_encoding)

option_value(m, encoding, option) ==
    IF m.value = None THEN [ok |-> TRUE, text |-> None]
    ELSE IF encoding # None
    THEN decode(unquote_to_bytes(unquote_header_value(m.value, option = FILENAME)),
                encoding)
    ELSE [ok |-> TRUE, text |-> unquote_header_value(m.value, option = FILENAME)]

\* A variant that remembers the encoding after a parameter without an index.
decode_option_keep_encoding(rest, options, m, encoding, option) ==
    store_option(rest, options, m, encoding, option,
                 option_value(m, encoding, option))

decode_option(rest, options, m, encoding, option) ==
    store_option(rest, options, m, IF m.count THEN encoding ELSE None, option,
                 option_value(m, encoding, option))

\* A variant that stores the key in the letter case it was written in.
parse_option_keep_case(rest, options, continued_encoding, m) ==
    IF ~m.ok THEN [ok |-> TRUE, options |-> options]
    ELSE decode_option(rest, options, m,
             IF m.count /\ (m.encoding = None \/ m.encoding = <<>>)
             THEN continued_encoding ELSE m.encoding,
             unquote_header_value(m.key, FALSE))

parse_option(rest, options, continued_encoding, m) ==
    IF ~m.ok THEN [ok |-> TRUE, options |-> options]
    ELSE decode_option(rest, options, m,
             IF m.count /\ (m.encoding = None \/ m.encoding = <<>>)
             THEN continued_encoding ELSE m.encoding,
             lower(unquote_header_value(m.key, FALSE)))

parse_options(rest, options, continued_encoding) ==
    IF rest = <<>> THEN [ok |-> TRUE, options |-> options]
    ELSE parse_option(rest, options, continued_encoding, option_header_piece(rest))

\* parse_options_header(value): [ok, value, options].  v is "," + value
\* with newlines replaced by commas, i..tokEnd-1 the first token
\* (_option_header_start_mime_type).
options_header_from_token(v, i, tokEnd, opts) ==
    [ok |-> opts.ok, value |-> SubSeq(v, i, tokEnd - 1), options |-> opts.options]

options_header_token(v, i, tokEnd) ==
    IF tokEnd = i THEN [ok |-> TRUE, value |-> <<>>, options |-> <<>>]
    ELSE options_header_from_token(v, i, tokEnd,
             parse_options(IF tokEnd < Len(v) /\ v[tokEnd] \in {59, 44}
                           THEN From(v, tokEnd) ELSE <<>>,
                           <<>>, None))

options_header_start(v, i) ==
    options_header_token(v, i,
        Span(LAMBDA c : ~IsStrSpace(c) /\ c \notin {59, 44}, v, i))

options_header_value(v) == options_header_start(v, Span(IsStrSpace, v, 2))

parse_options_header(value) ==
    IF value = <<>> \/ value = None THEN [ok |-> TRUE, value |-> <<>>, options |-> <<>>]
    ELSE options_header_value(
             <<44>> \o [i \in 1..Len(value) |-> IF value[i] = LF THEN 44 ELSE value[i]])

(***************************************************************************)
(* Events (events.py).                                                     *)
(***************************************************************************)
NoEvent == [type |-> "None"]
PreambleEvent(data) == [type |-> "Preamble", data |-> data]
FieldEvent(name, headers) == [type |-> "Field", name |-> name, headers |-> headers]
FileEvent(name, filename, headers) ==
    [type |-> "File", name |-> name, filename |-> filename, headers |-> headers]
DataEvent(data, more_data) == [type |-> "Data", data |-> data, more_data |-> more_data]
EpilogueEvent(data) == [type |-> "Epilogue", data |-> data]

(***************************************************************************)
(* MultipartDecoder (decoder.py).  A decoder is the record of its slots;   *)
(* the two compiled patterns are functions of message_boundary.            *)
(***************************************************************************)
\* max_size = None
NoLimit == -1

MultipartDecoder(boundary, max_size) ==
    [buffer |-> <<>>, max_size |-> max_size, processing_stage |-> "PREAMBLE",
     message_boundary |-> boundary, search_position |-> 0]

\* A variant of __call__ that extends the buffer before the size check.
call_extend_first(self, data) ==
    IF data = <<>> THEN [self |-> self, raised |-> FALSE]
    ELSE [self |-> [self EXCEPT !.buffer = self.buffer \o data],
          raised |-> self.max_size # NoLimit
                     /\ Len(self.buffer) + Len(data) > self.max_size]

\* A variant of __call__ with no size check.
call_unchecked(self, data) ==
    [self |-> [self EXCEPT !.buffer = self.buffer \o data], raised |-> FALSE]

\* __call__(data): [self, raised].  data = None or b"" changes nothing.
call(self, data) ==
    IF data = <<>> THEN [self |-> self, raised |-> FALSE]
    ELSE IF self.max_size # NoLimit
            /\ Len(self.buffer) + Len(data) > self.max_size
         THEN [self |-> self, raised |-> TRUE]
    ELSE [self |-> [self EXCEPT !.buffer = self.buffer \o data], raised |-> FALSE]

\* A variant that stays in PREAMBLE after a delimiter that is not the final
\* one.
preamble_event_stay(self, match) ==
    IF match.ok
    THEN [self |-> [self EXCEPT
                      !.processing_stage = IF match.final THEN "EPILOGUE" ELSE "PREAMBLE",
                      !.buffer = From(self.buffer, match.end)],
          event |-> PreambleEvent(Upto(self.buffer, match.start))]
    ELSE [self |-> self, event |-> NoEvent]

\* A variant that goes on to PART after the final delimiter too.
preamble_event_always_part(self, match) ==
    IF match.ok
    THEN [self |-> [self EXCEPT
                      !.processing_stage = "PART",
                      !.buffer = From(self.buffer, match.end)],
          event |-> PreambleEvent(Upto(self.buffer, match.start))]
    ELSE [self |-> self, event |-> NoEvent]

\* _process_preamble, match being the result of preamble_re.search.
preamble_event(self, match) ==
    IF match.ok
    THEN [self |-> [self EXCEPT
                      !.processing_stage = IF match.final THEN "EPILOGUE" ELSE "PART",
                      !.buffer = From(self.buffer, match.end)],
          event |-> PreambleEvent(Upto(self.buffer, match.start))]
    ELSE [self |-> self, event |-> NoEvent]

\* A variant whose Preamble event carries the delimiter too.
preamble_event_through_match(self, match) ==
    IF match.ok
    THEN [self |-> [self EXCEPT
                      !.processing_stage = IF match.final THEN "EPILOGUE" ELSE "PART",
                      !.buffer = From(self.buffer, match.end)],
          event |-> PreambleEvent(Upto(self.buffer, match.end))]
    ELSE [self |-> self, event |-> NoEvent]

process_preamble_through_match(self) ==
    preamble_event_through_match(self,
        preamble_re_search(self.message_boundary, self.buffer, self.search_position))

process_preamble(self) ==
    preamble_event(self,
        preamble_re_search(self.message_boundary, self.buffer, self.search_position))

CONTENT_DISPOSITION ==
    Str(<<"C","o","n","t","e","n","t","-","D","i","s","p","o","s","i","t","i","o","n">>)

\* headers.get("Content-Disposition") or headers.get("content-disposition")
content_disposition_of(headers) ==
    IF dict_get(headers, CONTENT_DISPOSITION, None) \notin {None, <<>>}
    THEN dict_get(headers, CONTENT_DISPOSITION, None)
    ELSE dict_get(headers, lower(CONTENT_DISPOSITION), None)

MISSING_CONTENT_DISPOSITION == "ValueError: Missing Content-Disposition header"

\* A variant that returns a File event only for a file name that is not
\* empty.
part_event_named_file(cut, headers, extra) ==
    IF ~extra.ok
    THEN [self |-> cut, event |-> NoEvent, raised |-> "parse_options_header"]
    ELSE IF dict_get(extra.options, FILENAME, <<>>) \notin {<<>>, None}
    THEN [self |-> cut, raised |-> "",
          event |-> FileEvent(dict_get(extra.options, NAME, <<>>),
                              dict_get(extra.options, FILENAME, <<>>), headers)]
    ELSE [self |-> cut, raised |-> "",
          event |-> FieldEvent(dict_get(extra.options, NAME, <<>>), headers)]

\* _process_part: [self, event, raised], statement by statement.
\* parse_headers raises before the buffer is cut, the other two errors
\* after.  cut is the decoder after del self.buffer[: match.end()].
part_event(cut, headers, extra) ==
    IF ~extra.ok
    THEN [self |-> cut, event |-> NoEvent, raised |-> "parse_options_header"]
    ELSE IF dict_has(extra.options, FILENAME)
    THEN [self |-> cut, raised |-> "",
          event |-> FileEvent(dict_get(extra.options, NAME, <<>>),
                              dict_get(extra.options, FILENAME, <<>>), headers)]
    ELSE [self |-> cut, raised |-> "",
          event |-> FieldEvent(dict_get(extra.options, NAME, <<>>), headers)]

part_of_disposition(cut, headers, content_disposition_header) ==
    IF content_disposition_header \in {None, <<>>}
    THEN [self |-> cut, event |-> NoEvent, raised |-> MISSING_CONTENT_DISPOSITION]
    ELSE part_event(cut, headers, parse_options_header(content_disposition_header))

part_of_headers(self, cut, parsed) ==
    IF ~parsed.ok
    THEN [self |-> self, event |-> NoEvent, raised |-> "ValueError: unpack"]
    ELSE part_of_disposition(cut, parsed.headers,
                             content_disposition_of(parsed.headers))

part_of_match(self, match) ==
    IF ~match.ok THEN [self |-> self, event |-> NoEvent, raised |-> ""]
    ELSE part_of_headers(self,
             [self EXCEPT !.buffer = From(self.buffer, match.end)],
             parse_headers(Upto(self.buffer, match.start)))

process_part(self) ==
    part_of_match(self, BLANK_LINE_RE_search(self.buffer, self.search_position))

\* _process_data, match being the result of boundary_re.search (sought only
\* when the buffer holds "--" + boundary) and data_length that of
\* get_buffer_last_newline.
data_match(self) ==
    IF Contains(self.buffer, DASHES \o self.message_boundary)
    THEN boundary_re_search(self.message_boundary, self.buffer)
    ELSE NoMatch

\* A variant whose last chunk of a body runs through the delimiter.
data_event_through_match(self, match, data_length) ==
    IF match.ok
    THEN [self |-> [self EXCEPT
                      !.processing_stage = IF match.final THEN "EPILOGUE" ELSE "PART",
                      !.buffer = From(self.buffer, match.end)],
          event |-> DataEvent(Upto(self.buffer, match.end), FALSE)]
    ELSE [self |-> [self EXCEPT !.buffer = From(self.buffer, data_length + 1)],
          event |-> IF data_length > 0
                    THEN DataEvent(Upto(self.buffer, data_length + 1), TRUE)
                    ELSE NoEvent]

\* A variant that returns the bytes held back also when there are none.
data_event_empty_more(self, match, data_length) ==
    IF match.ok
    THEN [self |-> [self EXCEPT
                      !.processing_stage = IF match.final THEN "EPILOGUE" ELSE "PART",
                      !.buffer = From(self.buffer, match.end)],
          event |-> DataEvent(Upto(self.buffer, match.start), FALSE)]
    ELSE [self |-> [self EXCEPT !.buffer = From(self.buffer, data_length + 1)],
          event |-> DataEvent(Upto(self.buffer, data_length + 1), TRUE)]

data_event(self, match, data_length) ==
    IF match.ok
    THEN [self |-> [self EXCEPT
                      !.processing_stage = IF match.final THEN "EPILOGUE" ELSE "PART",
                      !.buffer = From(self.buffer, match.end)],
          event |-> DataEvent(Upto(self.buffer, match.start), FALSE)]
    ELSE [self |-> [self EXCEPT !.buffer = From(self.buffer, data_length + 1)],
          event |-> IF data_length > 0
                    THEN DataEvent(Upto(self.buffer, data_length + 1), TRUE)
                    ELSE NoEvent]

\* Two variants: one reports more_data = True for the chunk that ends at a
\* delimiter, one suppresses that chunk when it is empty.
data_event_more(self, match, data_length) ==
    IF match.ok
    THEN [self |-> [self EXCEPT
                      !.processing_stage = IF match.final THEN "EPILOGUE" ELSE "PART",
                      !.buffer = From(self.buffer, match.end)],
          event |-> DataEvent(Upto(self.buffer, match.start), TRUE)]
    ELSE [self |-> [self EXCEPT !.buffer = From(self.buffer, data_length + 1)],
          event |-> IF data_length > 0
                    THEN DataEvent(Upto(self.buffer, data_length + 1), TRUE)
                    ELSE NoEvent]

data_event_suppress_empty(self, match, data_length) ==
    IF match.ok
    THEN [self |-> [self EXCEPT
                      !.processing_stage = IF match.final THEN "EPILOGUE" ELSE "PART",
                      !.buffer = From(self.buffer, match.end)],
          event |-> IF match.start > 1
                    THEN DataEvent(Upto(self.buffer, match.start), FALSE)
                    ELSE NoEvent]
    ELSE [self |-> [self EXCEPT !.buffer = From(self.buffer, data_length + 1)],
          event |-> IF data_length > 0
                    THEN DataEvent(Upto(self.buffer, data_length + 1), TRUE)
                    ELSE NoEvent]

process_data_more(self) ==
    data_event_more(self, data_match(self), get_buffer_last_newline(self.buffer))

process_data_suppress_empty(self) ==
    data_event_suppress_empty(self, data_match(self),
                              get_buffer_last_newline(self.buffer))

process_data(self) ==
    data_event(self, data_match(self), get_buffer_last_newline(self.buffer))

\* next_event: [self, event, raised].  r is what the stage's method did.
after_preamble(self, r) ==
    [self |-> [r.self EXCEPT !.search_position =
                 IF r.event # NoEvent THEN 0
                 ELSE Max2(0, Len(r.self.buffer) - Len(self.message_boundary)
                              - SEARCH_BUFFER_LENGTH)],
     event |-> r.event, raised |-> ""]

after_part(r) ==
    IF r.raised # "" THEN r
    ELSE IF r.event # NoEvent
    THEN [self |-> [r.self EXCEPT !.search_position = 0,
                                  !.processing_stage = "DATA"],
          event |-> r.event, raised |-> ""]
    ELSE [self |-> [r.self EXCEPT !.search_position =
                      Max2(0, Len(r.self.buffer) - SEARCH_BUFFER_LENGTH)],
          event |-> NoEvent, raised |-> ""]

after_data(r) == [self |-> r.self, event |-> r.event, raised |-> ""]

\* A variant in which COMPLETE is not terminal: bytes appended to a COMPLETE
\* decoder are returned in another Epilogue.
next_event_late_epilogue(self) ==
    CASE self.processing_stage = "COMPLETE" /\ self.buffer = <<>> ->
           [self |-> self, event |-> NoEvent, raised |-> ""]
      [] self.processing_stage = "PREAMBLE" ->
           after_preamble(self, process_preamble(self))
      [] self.processing_stage = "PART" -> after_part(process_part(self))
      [] self.processing_stage = "DATA" -> after_data(process_data(self))
      [] OTHER ->
           [self |-> [self EXCEPT !.buffer = <<>>, !.processing_stage = "COMPLETE"],
            event |-> EpilogueEvent(self.buffer), raised |-> ""]

next_event(self) ==
    CASE self.processing_stage = "COMPLETE" ->
           [self |-> self, event |-> NoEvent, raised |-> ""]
      [] self.processing_stage = "PREAMBLE" ->
           after_preamble(self, process_preamble(self))
      [] self.processing_stage = "PART" -> after_part(process_part(self))
      [] self.processing_stage = "DATA" -> after_data(process_data(self))
      [] self.processing_stage = "EPILOGUE" ->
           [self |-> [self EXCEPT !.buffer = <<>>, !.processing_stage = "COMPLETE"],
            event |-> EpilogueEvent(self.buffer), raised |-> ""]

(***************************************************************************)
(* MultipartEncoder (encoder.py).  An encoder is its processing_stage; the *)
(* boundary is fixed at construction.                                      *)
(***************************************************************************)
\* str.encode("latin-1") succeeds when every character is below 256 (and
\* the value is a string, not None); the bytes are then the code points.
Latin1Encodable(s) == s # None /\ \A i \in 1..Len(s) : s[i] \in 0..255

CD_PREFIX ==
    Str(<<"C","o","n","t","e","n","t","-","D","i","s","p","o","s","i","t","i","o","n",
          ":"," ","f","o","r","m","-","d","a","t","a",";"," ","n","a","m","e","=","\"">>)
FILENAME_PREFIX == Str(<<";"," ","f","i","l","e","n","a","m","e","=","\"">>)

\* A variant that leaves out only the header named Content-Disposition in
\* these very letters.
RECURSIVE header_lines_exact(_)
header_lines_exact(headers) ==
    IF headers = <<>> THEN <<>>
    ELSE (IF Head(headers)[1] # CONTENT_DISPOSITION
          THEN Head(headers)[1] \o <<COLON, 32>> \o Head(headers)[2] \o CRLF
          ELSE <<>>) \o header_lines_exact(Tail(headers))

\* The lines written for the event's headers other than Content-Disposition.
RECURSIVE header_lines(_)
header_lines(headers) ==
    IF headers = <<>> THEN <<>>
    ELSE (IF lower(Head(headers)[1]) # lower(CONTENT_DISPOSITION)
          THEN Head(headers)[1] \o <<COLON, 32>> \o Head(headers)[2] \o CRLF
          ELSE <<>>) \o header_lines(Tail(headers))

HeadersEncodable(headers) ==
    \A i \in 1..Len(headers) :
        lower(headers[i][1]) # lower(CONTENT_DISPOSITION)
            => Latin1Encodable(headers[i][1]) /\ Latin1Encodable(headers[i][2])

\* MultipartEncoder(boundary): the stage after construction.
MultipartEncoder(boundary) ==
    [message_boundary |-> boundary, processing_stage |-> "PREAMBLE"]

\* A variant that a sequencing error leaves in COMPLETE.
send_event_fail_complete(stage, message_boundary, event) ==
    IF event.type = "Preamble" /\ stage = "PREAMBLE"
    THEN [stage |-> "PART", data |-> event.data, raised |-> ""]
    ELSE IF event.type \in {"Field", "File"} /\ stage \in {"PREAMBLE", "PART", "DATA"}
    THEN IF ~Latin1Encodable(event.name)
            \/ (event.type = "File" /\ ~Latin1Encodable(event.filename))
            \/ ~HeadersEncodable(event.headers)
         THEN [stage |-> "DATA", data |-> <<>>, raised |-> "encode"]
         ELSE [stage |-> "DATA", raised |-> "",
               data |-> CRLF \o DASHES \o message_boundary \o CRLF
                        \o CD_PREFIX \o event.name \o <<QUOTE>>
                        \o (IF event.type = "File"
                            THEN FILENAME_PREFIX \o event.filename \o <<QUOTE>>
                            ELSE <<>>)
                        \o CRLF \o header_lines(event.headers) \o CRLF]
    ELSE IF event.type = "Data" /\ stage = "DATA"
    THEN [stage |-> "DATA", data |-> event.data, raised |-> ""]
    ELSE IF event.type = "Epilogue"
    THEN [stage |-> "COMPLETE", raised |-> "",
          data |-> CRLF \o DASHES \o message_boundary \o DASHES \o CRLF \o event.data]
    ELSE [stage |-> "COMPLETE", data |-> <<>>, raised |-> "ValueError"]

\* A variant that also takes a Data event in the PART stage, before any
\* Field or File event.
send_event_data_in_part(stage, message_boundary, event) ==
    IF event.type = "Preamble" /\ stage = "PREAMBLE"
    THEN [stage |-> "PART", data |-> event.data, raised |-> ""]
    ELSE IF event.type \in {"Field", "File"} /\ stage \in {"PREAMBLE", "PART", "DATA"}
    THEN IF ~Latin1Encodable(event.name)
            \/ (event.type = "File" /\ ~Latin1Encodable(event.filename))
            \/ ~HeadersEncodable(event.headers)
         THEN [stage |-> "DATA", data |-> <<>>, raised |-> "encode"]
         ELSE [stage |-> "DATA", raised |-> "",
               data |-> CRLF \o DASHES \o message_boundary \o CRLF
                        \o CD_PREFIX \o event.name \o <<QUOTE>>
                        \o (IF event.type = "File"
                            THEN FILENAME_PREFIX \o event.filename \o <<QUOTE>>
                            ELSE <<>>)
                        \o CRLF \o header_lines(event.headers) \o CRLF]
    ELSE IF event.type = "Data" /\ stage \in {"PART", "DATA"}
    THEN [stage |-> "DATA", data |-> event.data, raised |-> ""]
    ELSE IF event.type = "Epilogue"
    THEN [stage |-> "COMPLETE", raised |-> "",
          data |-> CRLF \o DASHES \o message_boundary \o DASHES \o CRLF \o event.data]
    ELSE [stage |-> stage, data |-> <<>>, raised |-> "ValueError"]

\* A variant that takes a Field or File event only before any other: a
\* message of one part.
send_event_one_part(stage, message_boundary, event) ==
    IF event.type = "Preamble" /\ stage = "PREAMBLE"
    THEN [stage |-> "PART", data |-> event.data, raised |-> ""]
    ELSE IF event.type \in {"Field", "File"} /\ stage \in {"PREAMBLE", "PART"}
    THEN IF ~Latin1Encodable(event.name)
            \/ (event.type = "File" /\ ~Latin1Encodable(event.filename))
            \/ ~HeadersEncodable(event.headers)
         THEN [stage |-> "DATA", data |-> <<>>, raised |-> "encode"]
         ELSE [stage |-> "DATA", raised |-> "",
               data |-> CRLF \o DASHES \o message_boundary \o CRLF
                        \o CD_PREFIX \o event.name \o <<QUOTE>>
                        \o (IF event.type = "File"
                            THEN FILENAME_PREFIX \o event.filename \o <<QUOTE>>
                            ELSE <<>>)
                        \o CRLF \o header_lines(event.headers) \o CRLF]
    ELSE IF event.type = "Data" /\ stage = "DATA"
    THEN [stage |-> "DATA", data |-> event.data, raised |-> ""]
    ELSE IF event.type = "Epilogue"
    THEN [stage |-> "COMPLETE", raised |-> "",
          data |-> CRLF \o DASHES \o message_boundary \o DASHES \o CRLF \o event.data]
    ELSE [stage |-> stage, data |-> <<>>, raised |-> "ValueError"]

\* send_event: [stage, data, raised].  The stage is assigned before the
\* bytes are built, so an encoding error leaves the new stage in place.
send_event(stage, message_boundary, event) ==
    IF event.type = "Preamble" /\ stage = "PREAMBLE"
    THEN [stage |-> "PART", data |-> event.data, raised |-> ""]
    ELSE IF event.type \in {"Field", "File"} /\ stage \in {"PREAMBLE", "PART", "DATA"}
    THEN IF ~Latin1Encodable(event.name)
            \/ (event.type = "File" /\ ~Latin1Encodable(event.filename))
            \/ ~HeadersEncodable(event.headers)
         THEN [stage |-> "DATA", data |-> <<>>, raised |-> "encode"]
         ELSE [stage |-> "DATA", raised |-> "",
               data |-> CRLF \o DASHES \o message_boundary \o CRLF
                        \o CD_PREFIX \o event.name \o <<QUOTE>>
                        \o (IF event.type = "File"
                            THEN FILENAME_PREFIX \o event.filename \o <<QUOTE>>
                            ELSE <<>>)
                        \o CRLF \o header_lines(event.headers) \o CRLF]
    ELSE IF event.type = "Data" /\ stage = "DATA"
    THEN [stage |-> "DATA", data |-> event.data, raised |-> ""]
    ELSE IF event.type = "Epilogue"
    THEN [stage |-> "COMPLETE", raised |-> "",
          data |-> CRLF \o DASHES \o message_boundary \o DASHES \o CRLF \o event.data]
    ELSE [stage |-> stage, data |-> <<>>, raised |-> "ValueError"]

\* The bytes a fresh encoder writes for a sequence of events, sent in
\* order: [stage, data, raised], stopping at the first event that raises.
RECURSIVE send_events(_, _, _, _)
send_events(stage, message_boundary, events, data) ==
    IF events = <<>> THEN [stage |-> stage, data |-> data, raised |-> ""]
    ELSE LET r == send_event(stage, message_boundary, Head(events))
         IN  IF r.raised # "" THEN [stage |-> r.stage, data |-> data, raised |-> r.raised]
             ELSE send_events(r.stage, message_boundary, Tail(events), data \o r.data)

(***************************************************************************)
(* UploadFile (datastructures.py) and MultipartFormDataParser (parser.py). *)
(* An UploadFile is the record of its slots: file holds the bytes written  *)
(* to it, in order, and seeks the offsets passed to seek.                  *)
(***************************************************************************)
CONTENT_TYPE == Str(<<"C","o","n","t","e","n","t","-","T","y","p","e">>)
UTF_8 == Str(<<"u","t","f","-","8">>)

UploadFile(filename, content_type, headers) ==
    [filename |-> filename, content_type |-> content_type, headers |-> headers,
     file |-> <<>>, seeks |-> <<>>]

write(self, data) == [self EXCEPT !.file = self.file \o data]
seek(self, offset) == [self EXCEPT !.seeks = Append(self.seeks, offset)]

\* event.headers.get("Content-Type", "") or event.headers.get("content-type", "")
content_type_of(headers) ==
    IF dict_get(headers, CONTENT_TYPE, <<>>) # <<>>
    THEN dict_get(headers, CONTENT_TYPE, <<>>)
    ELSE dict_get(headers, lower(CONTENT_TYPE), <<>>)

\* An element of the list _parse_chunk returns: the field name with a string
\* or with an UploadFile, the latter given by its place in files.
StrItem(name, value) == [name |-> name, kind |-> "str", value |-> value]
FileItem(name, file) == [name |-> name, kind |-> "file", value |-> file]

\* The frame of one call of _parse_chunk: the parser's decoder and charset,
\* the UploadFile objects and the events so far, and the call's local
\* variables as the call starts (lines 39-43).  upload_file is the place of
\* the object in files, 0 for None.
parse_chunk_frame(self, all_files, evs) ==
    [decoder |-> self, charset |-> UTF_8, files |-> all_files, events |-> evs,
     items |-> <<>>, field_name |-> <<>>, data |-> <<>>, upload_file |-> 0,
     raised |-> ""]

\* Lines 59-64: a Data event while upload_file is None.
field_data(f, event, decoded) ==
    IF event.more_data THEN [f EXCEPT !.data = f.data \o event.data]
    ELSE IF ~decoded.ok THEN [f EXCEPT !.data = f.data \o event.data,
                                      !.raised = "decode"]
    ELSE [f EXCEPT !.items = Append(f.items, StrItem(f.field_name, decoded.text)),
                   !.data = <<>>]

\* Lines 65-70: a Data event while upload_file is an UploadFile.
file_data(f, event) ==
    IF event.more_data
    THEN [f EXCEPT !.files[f.upload_file] = write(f.files[f.upload_file], event.data)]
    ELSE [f EXCEPT !.files[f.upload_file] =
                       seek(write(f.files[f.upload_file], event.data), 0),
                   !.items = Append(f.items, FileItem(f.field_name, f.upload_file)),
                   !.upload_file = 0]

\* Lines 48-70: the body of the loop for a Field, File or Data event.
handle_event(f, event) ==
    CASE event.type = "Field" -> [f EXCEPT !.field_name = event.name]
      [] event.type = "File" ->
           [f EXCEPT !.field_name = event.name,
                     !.files = Append(f.files,
                                   UploadFile(event.filename,
                                              content_type_of(event.headers),
                                              event.headers)),
                     !.upload_file = Len(f.files) + 1]
      [] event.type = "Data" /\ f.upload_file = 0 ->
           field_data(f, event, decode(f.data \o event.data, f.charset))
      [] event.type = "Data" /\ f.upload_file # 0 -> file_data(f, event)
      [] OTHER -> f

\* _parse_chunk: the loop runs until next_event returns nothing or the
\* Epilogue, or a call raises.  r is what next_event did.
RECURSIVE parse_chunk(_)
after_next_event(f, r) ==
    IF r.raised # "" THEN [f EXCEPT !.decoder = r.self, !.raised = r.raised]
    ELSE IF r.event = NoEvent THEN [f EXCEPT !.decoder = r.self]
    ELSE IF r.event.type = "Epilogue"
    THEN [f EXCEPT !.decoder = r.self, !.events = Append(f.events, r.event)]
    ELSE parse_chunk(handle_event([f EXCEPT !.decoder = r.self,
                                            !.events = Append(f.events, r.event)],
                                  r.event))

parse_chunk(f) ==
    IF f.raised # "" THEN f ELSE after_next_event(f, next_event(f.decoder))

(***************************************************************************)
(* The inputs: multipart messages built from their components.             *)
(***************************************************************************)
MaxParts == 2
MaxBody == 3
MaxChunk == 3
SmallLimit == 30

BOUNDARY == Str(<<"b">>)

\* A part as a producer writes it: its header block and its body.  For a
\* part written in the canonical form the encoder uses, expect is the
\* Field or File event the part stands for.
Part(block, body, expect) == [block |-> block, body |-> body, expect |-> expect]

CD_VALUE(name) == Str(<<"f","o","r","m","-","d","a","t","a",";"," ","n","a","m","e","=","\"">>)
                  \o name \o <<QUOTE>>
CD_FILE_VALUE(name, filename) ==
    CD_VALUE(name) \o FILENAME_PREFIX \o filename \o <<QUOTE>>

FieldPart(name, body) ==
    Part(CONTENT_DISPOSITION \o <<COLON, 32>> \o CD_VALUE(name), body,
         FieldEvent(name, <<<<CONTENT_DISPOSITION, CD_VALUE(name)>>>>))

\* A file part with one more header, X-T: t.
X_T == Str(<<"X","-","T">>)
FilePart(name, filename, body) ==
    Part(CONTENT_DISPOSITION \o <<COLON, 32>> \o CD_FILE_VALUE(name, filename)
             \o CRLF \o X_T \o <<COLON, 32>> \o Str(<<"t">>),
         body,
         FileEvent(name, filename,
                   <<<<CONTENT_DISPOSITION, CD_FILE_VALUE(name, filename)>>,
                     <<X_T, Str(<<"t">>)>>>>))

\* A part whose header block is given byte for byte.
RawPart(block, body) == Part(block, body, NoEvent)

\* The bytes of a message: preamble, the line break (or nothing) before the
\* first delimiter, the horizontal whitespace that ends the first
\* delimiter's line, the parts, the final delimiter, what follows "--", and
\* the epilogue.
RECURSIVE PartsBytes(_, _)
PartsBytes(boundary, parts) ==
    IF parts = <<>> THEN <<>>
    ELSE CRLF \o Head(parts).block \o CRLF \o CRLF \o Head(parts).body
         \o CRLF \o DASHES \o boundary \o PartsBytes(boundary, Tail(parts))

Whole(boundary, m) ==
    m.pre \o m.lead \o DASHES \o boundary \o m.pad
    \o PartsBytes(boundary, m.parts)
    \o DASHES \o m.close \o m.epi

\* The message as it reaches the decoder: without its last m.drop bytes.
Build(boundary, m) ==
    SubSeq(Whole(boundary, m), 1, Len(Whole(boundary, m)) - m.drop)

\* wf: every part has a Content-Disposition header and a known event;
\* canonical: moreover every part is written the way the encoder writes it.
Message(pre, lead, parts, close, epi, wf, canonical) ==
    [pre |-> pre, lead |-> lead, parts |-> parts, close |-> close, epi |-> epi,
     wf |-> wf, canonical |-> canonical, pad |-> <<>>, drop |-> 0]

\* The message m with n spaces after its first delimiter, before the line
\* break.  It stays well-formed: the delimiter patterns allow the spaces.
Padded(m, n) == [m EXCEPT !.pad = [i \in 1..n |-> 32], !.canonical = FALSE]

\* The message m cut off n bytes before its end.
Truncated(m, n) == [m EXCEPT !.drop = n, !.wf = FALSE, !.canonical = FALSE]

BodyText == Str(<<"a","\r","\n","-","-","c","\r","\n","d">>)
Body(k) == SubSeq(BodyText, 1, k)

\* The n-part canonical message: field and file parts in turn.
CanonicalPart(i) ==
    IF i % 2 = 1 THEN FieldPart(Str(<<"x">>), Body(MaxBody))
    ELSE FilePart(Str(<<"x">>), Str(<<"y">>), <<>>)
Canonical(n, lead) ==
    Message(<<>>, lead, [i \in 1..n |-> CanonicalPart(i)], CRLF, <<>>, TRUE, TRUE)

\* Parts with the shortest header blocks the decoder accepts:
\* Content-Disposition:f and Content-Disposition:f;filename=y
CD_SHORT == Str(<<"f">>)
CD_SHORT_FILE == Str(<<"f",";","f","i","l","e","n","a","m","e","=","y">>)
ShortField(body) ==
    Part(CONTENT_DISPOSITION \o <<COLON>> \o CD_SHORT, body,
         FieldEvent(<<>>, <<<<CONTENT_DISPOSITION, CD_SHORT>>>>))
ShortFile(body) ==
    Part(CONTENT_DISPOSITION \o <<COLON>> \o CD_SHORT_FILE, body,
         FileEvent(<<>>, Str(<<"y">>), <<<<CONTENT_DISPOSITION, CD_SHORT_FILE>>>>))
ShortPart(i) == IF i % 2 = 1 THEN ShortField(Body(1)) ELSE ShortFile(<<>>)
Short(n) ==
    Message(<<>>, CRLF, [i \in 1..n |-> ShortPart(i)], CRLF, <<>>, TRUE, FALSE)

ShortInputs ==
    {Short(2)}
    \cup {Message(<<>>, CRLF, <<ShortField(Body(k))>>, CRLF, <<>>, TRUE, FALSE) :
            k \in 0..MaxBody}
    \cup {Message(Str(<<"p">>), CRLF, <<ShortField(Body(1))>>, CRLF,
                  Str(<<"e","p">>), TRUE, FALSE)}

UPPER_CD ==
    Str(<<"C","O","N","T","E","N","T","-","D","I","S","P","O","S","I","T","I","O","N">>)
X_Y == Str(<<"X",":","y">>)

\* Bodies that look like a delimiter: "--" and other bytes after a line
\* break; the boundary with no line break before it; the boundary after a
\* line break, followed by another byte.
DASHES_BODY == CRLF \o DASHES \o Str(<<"c">>)
UNBROKEN_BODY == Str(<<"a">>) \o DASHES \o BOUNDARY \o CRLF
UNENDED_BODY == CRLF \o DASHES \o BOUNDARY \o Str(<<"x">>)
DelimiterLikeBodies == {DASHES_BODY, UNBROKEN_BODY, UNENDED_BODY}
DelimiterLikeInputs ==
    {Message(<<>>, CRLF, <<ShortField(body)>>, CRLF, <<>>, TRUE, FALSE) :
        body \in DelimiterLikeBodies}

\* X, then Content-Disposition:f
NO_COLON_BLOCK == Str(<<"X">>) \o CRLF \o ShortField(<<>>).block
\* f;n*=x''y
CD_UNKNOWN_CHARSET == Str(<<"f",";","n","*","=","x","'","'","y">>)

\* f;name=n;filename="" and f;filename
CD_EMPTY_FILENAME ==
    Str(<<"f",";","n","a","m","e","=","n",";","f","i","l","e","n","a","m","e","=","\"","\"">>)
CD_BARE_FILENAME == Str(<<"f",";","f","i","l","e","n","a","m","e">>)

OtherInputs ==
    { \* the header name in upper case, and in lower case
      Message(<<>>, <<>>, <<RawPart(UPPER_CD \o <<COLON>> \o CD_SHORT, Body(1))>>,
              CRLF, <<>>, FALSE, FALSE),
      Message(<<>>, <<>>, <<RawPart(lower(CONTENT_DISPOSITION) \o <<COLON>> \o CD_SHORT,
                                    Body(1))>>,
              CRLF, <<>>, FALSE, FALSE),
      \* no Content-Disposition; the body reads like a header block
      Message(<<>>, <<>>, <<RawPart(X_Y, ShortField(<<>>).block \o CRLF \o CRLF
                                         \o Body(1))>>,
              CRLF, <<>>, FALSE, FALSE),
      \* no Content-Disposition, and a second part
      Message(<<>>, <<>>, <<RawPart(X_Y, Body(1)), ShortField(Body(1))>>,
              CRLF, <<>>, FALSE, FALSE),
      \* a header line without a colon before the Content-Disposition header
      Message(<<>>, <<>>, <<RawPart(NO_COLON_BLOCK, Body(1))>>,
              CRLF, <<>>, FALSE, FALSE),
      \* an extended parameter in a character set Python does not know
      Message(<<>>, <<>>, <<RawPart(CONTENT_DISPOSITION \o <<COLON>>
                                        \o CD_UNKNOWN_CHARSET, Body(1))>>,
              CRLF, <<>>, FALSE, FALSE),
      \* a file name that is empty, after a name; a file name without a value
      Message(<<>>, <<>>, <<RawPart(CONTENT_DISPOSITION \o <<COLON>>
                                        \o CD_EMPTY_FILENAME, <<>>)>>,
              CRLF, <<>>, FALSE, FALSE),
      Message(<<>>, <<>>, <<RawPart(CONTENT_DISPOSITION \o <<COLON>>
                                        \o CD_BARE_FILENAME, <<>>)>>,
              CRLF, <<>>, FALSE, FALSE) }

\* The inputs of Spec; among them a message whose first delimiter is
\* followed by spaces, one fewer than the slack of the search cursor.
Scenarios ==
    {[input |-> m, max_size |-> NoLimit] :
        m \in {Canonical(n, lead) : n \in 0..1, lead \in {<<>>, CRLF}}
              \cup ShortInputs \cup OtherInputs \cup DelimiterLikeInputs
              \cup {Padded(Short(1), SEARCH_BUFFER_LENGTH - 1)}}
    \cup {[input |-> Short(1), max_size |-> SmallLimit]}

\* The inputs of TwoChunks: those of Spec and the longer canonical messages.
TwoChunksScenarios ==
    Scenarios
    \cup {[input |-> m, max_size |-> NoLimit] :
            m \in {Canonical(n, CRLF) : n \in 2..MaxParts}
                  \cup {Short(n) : n \in 3..MaxParts}}
    \cup {[input |-> Canonical(1, CRLF), max_size |-> SmallLimit]}

(***************************************************************************)
(* The state: one decoder, the caller feeding it a message in chunks, and  *)
(* what the caller has seen.                                               *)
(***************************************************************************)
VARIABLES
    input,        \* the message's components (fixed)
    msg,          \* the message's bytes (fixed)
    decoder,      \* the MultipartDecoder
    fed,          \* how many bytes of msg the decoder has accepted
    eof,          \* the caller has passed None: no more bytes
    events,       \* the events next_event has returned, in order
    last,         \* how the last call ended
    sizeFail,     \* an append has raised; since then an event was
                  \* returned, a chunk was accepted
    partFail,     \* next_event has raised for a missing Content-Disposition;
                  \* since then an event was returned
    cut,          \* TwoChunks: the offset at which the message is split
    pc,           \* TwoChunks: the caller's position; "free" under Spec
    encoder,      \* the MultipartEncoder
    written,      \* the bytes the encoder has returned, in order
    files,        \* the UploadFile objects the form parser has created
    items,        \* the form parser's parse_result
    header,       \* the value passed to parse_options_header
    parsed        \* what parse_options_header returned for it

vars == <<input, msg, decoder, fed, eof, events, last, sizeFail, partFail, cut, pc,
          encoder, written, files, items, header, parsed>>

\* What the decoder's callers leave alone.
encoding == <<encoder, written>>
parsing == <<files, items>>
options_header == <<header, parsed>>

\* parse_options_header has not been called.
NotParsed == [ok |-> FALSE, value |-> None, options |-> <<>>]


\* The state after construction, given what the producer wrote and its bytes.
StartWith(components, bytes, max_size) ==
    /\ input = components
    /\ msg = bytes
    /\ decoder = MultipartDecoder(BOUNDARY, max_size)
    /\ fed = 0
    /\ eof = FALSE
    /\ events = <<>>
    /\ last = "start"
    /\ sizeFail = [failed |-> FALSE, event |-> FALSE, accepted |-> FALSE]
    /\ partFail = [failed |-> FALSE, event |-> FALSE]
    /\ encoder = MultipartEncoder(BOUNDARY)
    /\ written = <<>>
    /\ files = <<>>
    /\ items = <<>>
    /\ header = None
    /\ parsed = NotParsed

Start(sc) == StartWith(sc.input, Build(BOUNDARY, sc.input), sc.max_size)

\* decoder(data) with the next k bytes of the message (k = 0: b"").
Feed(k) ==
    LET r == call(decoder, SubSeq(msg, fed + 1, fed + k)) IN
    /\ decoder' = r.self
    /\ fed' = IF r.raised THEN fed ELSE fed + k
    /\ last' = IF r.raised THEN "RequestEntityTooLarge" ELSE "appended"
    /\ sizeFail' = IF r.raised THEN [sizeFail EXCEPT !.failed = TRUE]
                   ELSE IF sizeFail.failed /\ k > 0
                   THEN [sizeFail EXCEPT !.accepted = TRUE]
                   ELSE sizeFail
    /\ UNCHANGED <<input, msg, events, partFail, encoding, options_header, parsing>>

\* decoder(None): the end-of-input marker.
FeedNone ==
    /\ decoder' = call(decoder, <<>>).self
    /\ eof' = TRUE
    /\ UNCHANGED <<input, msg, fed, events, last, sizeFail, partFail, encoding, options_header, parsing>>

\* decoder.next_event(), r being what the call does.
Returned(r) ==
    /\ decoder' = r.self
    /\ events' = IF r.event # NoEvent THEN Append(events, r.event) ELSE events
    /\ last' = IF r.raised # "" THEN r.raised
               ELSE IF r.event # NoEvent THEN "event" ELSE "none"
    /\ partFail' = IF r.raised = MISSING_CONTENT_DISPOSITION
                   THEN [partFail EXCEPT !.failed = TRUE]
                   ELSE IF partFail.failed /\ r.event # NoEvent
                   THEN [partFail EXCEPT !.event = TRUE]
                   ELSE partFail
    /\ sizeFail' = IF sizeFail.failed /\ r.event # NoEvent
                   THEN [sizeFail EXCEPT !.event = TRUE] ELSE sizeFail
    /\ UNCHANGED <<input, msg, fed, eof, encoding, options_header, parsing>>

Pull == Returned(next_event(decoder))

(***************************************************************************)
(* Spec: any chunking of the message and any interleaving of the calls.    *)
(***************************************************************************)
Init == (\E sc \in Scenarios : Start(sc)) /\ cut = 0 /\ pc = "free"

\* A chunk is the next 1..MaxChunk bytes or all the remaining bytes; appends
\* that follow each other with no next_event between them build the buffer a
\* longer chunk would.
AppendChunk(k) ==
    /\ ~eof
    /\ k \in 1..(Len(msg) - fed)
    /\ k <= MaxChunk \/ k = Len(msg) - fed
    /\ Feed(k)
    /\ UNCHANGED <<eof, cut, pc>>

AppendNone ==
    /\ ~eof
    /\ fed = Len(msg)
    /\ FeedNone
    /\ UNCHANGED <<cut, pc>>

NextEvent == Pull /\ UNCHANGED <<cut, pc>>

Next ==
    \/ \E k \in 1..Len(msg) : AppendChunk(k)
    \/ AppendNone
    \/ NextEvent

Spec == Init /\ [][Next]_vars

(***************************************************************************)
(* TwoChunks: the caller appends the first cut bytes, draws events until   *)
(* next_event returns nothing, appends the remaining bytes and the         *)
(* end-of-input marker, and draws again.  cut = Len(msg) is the message in *)
(* one chunk.  A caller whose call raised stops.                           *)
(***************************************************************************)
TwoChunksInit ==
    \E sc \in TwoChunksScenarios :
        /\ Start(sc)
        /\ cut \in 0..Len(Build(BOUNDARY, sc.input))
        /\ pc = "first"

AppendFirst ==
    /\ pc = "first"
    /\ Feed(cut)
    /\ pc' = "drain1"
    /\ UNCHANGED <<eof, cut>>

Drawn(r) ==
    /\ Returned(r)
    /\ pc' = IF r.raised # "" THEN "done"
             ELSE IF r.event # NoEvent THEN pc
             ELSE IF pc = "drain1" THEN "second" ELSE "done"

Drain ==
    /\ pc \in {"drain1", "drain2"}
    /\ Drawn(next_event(decoder))
    /\ UNCHANGED cut

AppendRest ==
    /\ pc = "second"
    /\ IF sizeFail.failed
       THEN pc' = "done" /\ UNCHANGED <<input, msg, decoder, fed, events, last,
                                       sizeFail, partFail, encoding, options_header, parsing>>
       ELSE pc' = "end" /\ Feed(Len(msg) - fed)
    /\ UNCHANGED <<eof, cut>>

EndOfInput ==
    /\ pc = "end"
    /\ IF sizeFail.failed
       THEN pc' = "done" /\ UNCHANGED <<input, msg, decoder, fed, eof, events, last,
                                       sizeFail, partFail, encoding, options_header, parsing>>
       ELSE pc' = "drain2" /\ FeedNone
    /\ UNCHANGED cut

TwoChunksNext == AppendFirst \/ Drain \/ AppendRest \/ EndOfInput

TwoChunks == TwoChunksInit /\ [][TwoChunksNext]_vars

(***************************************************************************)
(* Encoder: one MultipartEncoder and a caller who sends it up to MaxSent   *)
(* events, any event in any stage.  events holds the events passed to      *)
(* send_event, whether the call returned or raised.                        *)
(***************************************************************************)
MaxSent == 3

\* Headers of an event, in order: X-T, content-disposition, A,
\* CONTENT-DISPOSITION.
MIXED_HEADERS ==
    <<<<X_T, Str(<<"t">>)>>, <<lower(CONTENT_DISPOSITION), Str(<<"q">>)>>,
      <<Str(<<"A">>), Str(<<"1">>)>>, <<UPPER_CD, Str(<<"r">>)>>>>

\* An event of every type; a Field event whose name latin-1 cannot encode;
\* a Field event with Content-Disposition headers among its headers.
EncoderEvents ==
    {PreambleEvent(Str(<<"p">>)),
     FieldEvent(Str(<<"z">>), MIXED_HEADERS),
     FieldEvent(Str(<<"x">>), <<>>),
     FieldEvent(<<300>>, <<>>),
     FileEvent(Str(<<"x">>), Str(<<"y">>), <<<<X_T, Str(<<"t">>)>>>>),
     DataEvent(Str(<<"a">>), FALSE),
     EpilogueEvent(<<>>)}

EncoderInit ==
    /\ Start([input |-> Canonical(0, CRLF), max_size |-> NoLimit])
    /\ cut = 0
    /\ pc = "encoder"

\* encoder.send_event(event), r being what the call does.
Sent(event, r) ==
    /\ encoder' = [encoder EXCEPT !.processing_stage = r.stage]
    /\ written' = written \o r.data
    /\ events' = Append(events, event)
    /\ last' = IF r.raised = "" THEN "sent" ELSE r.raised
    /\ UNCHANGED <<input, msg, decoder, fed, eof, sizeFail, partFail, cut, pc, parsing, options_header>>

SendEvent(event) ==
    /\ Len(events) < MaxSent
    /\ Sent(event, send_event(encoder.processing_stage, encoder.message_boundary,
                              event))

EncoderNext == \E event \in EncoderEvents : SendEvent(event)

Encoder == EncoderInit /\ [][EncoderNext]_vars

(***************************************************************************)
(* Form: MultipartFormDataParser.__call__ over a stream that yields the    *)
(* message in chunks.  Each turn of its loop appends a chunk and runs      *)
(* _parse_chunk; when the stream is exhausted the call returns.            *)
(***************************************************************************)
\* A file part with a body of more than one line, alone and before a field
\* part; a field part before a file part with an empty body; a field part
\* with a name and a body of more than one line.
FormInputs ==
    {Message(<<>>, CRLF, <<ShortFile(Body(MaxBody))>>, CRLF, <<>>, TRUE, FALSE),
     Message(<<>>, CRLF, <<ShortFile(Body(1)), ShortField(Body(1))>>, CRLF, <<>>,
             TRUE, FALSE),
     Short(2),
     Canonical(1, CRLF)}
FormScenarios == {[input |-> m, max_size |-> NoLimit] : m \in FormInputs}

FormInit == (\E sc \in FormScenarios : Start(sc)) /\ cut = 0 /\ pc = "stream"

\* Lines 81-82, c being what self.decoder(chunk) did and f the frame of
\* _parse_chunk at its return.  An exception leaves __call__.
Parsed(k, c, f) ==
    /\ decoder' = f.decoder
    /\ fed' = IF c.raised THEN fed ELSE fed + k
    /\ events' = f.events
    /\ files' = f.files
    /\ items' = IF c.raised \/ f.raised # "" THEN items ELSE items \o f.items
    /\ last' = IF c.raised THEN "RequestEntityTooLarge"
               ELSE IF f.raised # "" THEN f.raised ELSE "parsed"
    /\ pc' = IF c.raised \/ f.raised # "" THEN "raised" ELSE pc
    /\ UNCHANGED <<input, msg, eof, sizeFail, partFail, cut, encoding, options_header>>

Called(k, c) ==
    Parsed(k, c, IF c.raised THEN parse_chunk_frame(c.self, files, events)
                 ELSE parse_chunk(parse_chunk_frame(c.self, files, events)))

StreamChunk(k) ==
    /\ pc = "stream"
    /\ k \in 1..(Len(msg) - fed)
    /\ k <= MaxChunk \/ k = Len(msg) - fed
    /\ Called(k, call(decoder, SubSeq(msg, fed + 1, fed + k)))

\* The stream is exhausted: __call__ returns parse_result.
StreamEnd ==
    /\ pc = "stream"
    /\ fed = Len(msg)
    /\ pc' = "returned"
    /\ eof' = TRUE
    /\ UNCHANGED <<input, msg, decoder, fed, events, last, sizeFail, partFail, cut,
                   encoding, options_header, parsing>>

FormNext == (\E k \in 1..Len(msg) : StreamChunk(k)) \/ StreamEnd

Form == FormInit /\ [][FormNext]_vars

(***************************************************************************)
(* Live: the caller of Spec with a message that may end before its final   *)
(* delimiter.  The end of the input is signalled while the decoder is in   *)
(* the DATA stage, and from then on the caller goes on calling next_event  *)
(* as long as a call changes anything (the loop of the tests).             *)
(***************************************************************************)
\* The one-part message whole, cut off inside its final delimiter, after its
\* body's line break, and after its body.
CutOff == {0, 3, Len(DASHES \o BOUNDARY \o DASHES \o CRLF),
           Len(CRLF \o DASHES \o BOUNDARY \o DASHES \o CRLF)}
LiveScenarios ==
    {[input |-> Truncated(Short(1), n), max_size |-> NoLimit] : n \in CutOff}

LiveInit == (\E sc \in LiveScenarios : Start(sc)) /\ cut = 0 /\ pc = "free"

AppendNoneInData == decoder.processing_stage = "DATA" /\ AppendNone

NextEventAfterEnd == eof /\ NextEvent

LiveNext ==
    \/ \E k \in 1..Len(msg) : AppendChunk(k)
    \/ AppendNoneInData
    \/ NextEvent

Live == LiveInit /\ [][LiveNext]_vars /\ WF_vars(NextEventAfterEnd)

\* The events of the message appended in one chunk and drawn until
\* next_event returns nothing or raises: [self, events, raised].
RECURSIVE drain(_, _)
drain(self, evs) ==
    LET r == next_event(self)
    IN  IF r.raised # "" \/ r.event = NoEvent
        THEN [self |-> r.self, events |-> evs, raised |-> r.raised]
        ELSE drain(r.self, Append(evs, r.event))

OneChunk(boundary, max_size, data) ==
    drain(call(MultipartDecoder(boundary, max_size), data).self, <<>>)

(***************************************************************************)
(* Disposition: an encoder is sent one Field or File event, and a decoder  *)
(* is given what the encoder wrote and drained.  events holds the event    *)
(* sent, then the events the decoder returned.                             *)
(***************************************************************************)
MaxName == 2
\* A letter, the double quote, the backslash, the semicolon, the space and
\* the equals sign: the characters the option patterns distinguish.
NameAlphabet == {97, QUOTE, BACKSLASH, 59, 32, 61}
Names == UNION {[1..k -> NameAlphabet] : k \in 0..MaxName}

DispositionEvents ==
    {FieldEvent(n, <<>>) : n \in Names}
    \cup {FileEvent(Str(<<"x">>), f, <<>>) : f \in Names}

DispositionInit ==
    /\ Start([input |-> Canonical(0, CRLF), max_size |-> NoLimit])
    /\ cut = 0
    /\ pc = "disposition"

SendPart(event) ==
    /\ events = <<>>
    /\ Sent(event, send_event(encoder.processing_stage, encoder.message_boundary,
                              event))

\* decoder(written), then next_event until it returns nothing or raises.
Reparsed(r) ==
    /\ decoder' = r.self
    /\ events' = events \o r.events
    /\ last' = IF r.raised # "" THEN r.raised ELSE "reparsed"
    /\ fed' = Len(written)
    /\ UNCHANGED <<input, msg, eof, sizeFail, partFail, cut, pc, encoding, options_header, parsing>>

Reparse ==
    /\ Len(events) = 1
    /\ last = "sent"
    /\ Reparsed(drain(call(decoder, written).self, <<>>))

DispositionNext == (\E event \in DispositionEvents : SendPart(event)) \/ Reparse

Disposition == DispositionInit /\ [][DispositionNext]_vars

(***************************************************************************)
(* OptionsHeader: parse_options_header called once with a header value.    *)
(***************************************************************************)
\* urllib.parse.quote of the UTF-8 bytes of a name whose characters are
\* letters or above 127: a byte above 127 becomes "%" and two capital
\* hexadecimal digits.
HexDigit(n) == IF n < 10 THEN 48 + n ELSE 55 + n
RECURSIVE quote_bytes(_)
quote_bytes(b) ==
    IF b = <<>> THEN <<>>
    ELSE (IF b[1] < 128 THEN <<b[1]>>
          ELSE <<37, HexDigit(b[1] \div 16), HexDigit(b[1] % 16)>>)
         \o quote_bytes(Tail(b))
quote(name) == quote_bytes(Utf8Encode(name))

\* The file name as one extended parameter, and as two continuation
\* segments, the first k characters of the percent-encoded name in the first.
EXTENDED == Str(<<"f",";"," ","f","i","l","e","n","a","m","e","*","=","U","T","F","-","8","'","'">>)
SEGMENT_0 == Str(<<"f",";"," ","f","i","l","e","n","a","m","e","*","0","*","=","U","T","F","-","8","'","'">>)
SEGMENT_1 == Str(<<";"," ","f","i","l","e","n","a","m","e","*","1","=">>)
Single(name) == EXTENDED \o quote(name)
Continued(name, k) ==
    SEGMENT_0 \o Upto(quote(name), k + 1) \o SEGMENT_1 \o From(quote(name), k + 1)

\* What a header value is built from, and the value (text): a file name
\* in continuation segments split at k or as a single parameter, a
\* sequence of parameters, or the text itself.
HeaderInput(kind, name, k, params, text) ==
    [kind |-> kind, name |-> name, k |-> k, params |-> params, text |-> text]

\* a e-acute, e-acute n-tilde, a b
ContinuedNames == {<<97, 233>>, <<233, 241>>, <<97, 98>>}
ContinuationInputs ==
    {HeaderInput("single", n, 0, <<>>, Single(n)) : n \in ContinuedNames}
    \cup UNION {{HeaderInput("continued", n, k, <<>>, Continued(n, k)) :
                    k \in 0..Len(quote(n))} : n \in ContinuedNames}

\* A parameter as a producer writes it: ; key[*count](=|*=encoding'')value.
Param(key, count, charset, value) ==
    [key |-> key, count |-> count, encoding |-> charset, value |-> value]
ParamText(p) ==
    <<59, 32>> \o p.key
    \o (IF p.count = None THEN <<>> ELSE <<42>> \o p.count)
    \o (IF p.encoding = None THEN <<61>> ELSE <<42, 61>> \o p.encoding \o <<39, 39>>)
    \o p.value
RECURSIVE ParamsText(_)
ParamsText(ps) ==
    IF ps = <<>> THEN <<>> ELSE ParamText(Head(ps)) \o ParamsText(Tail(ps))

LATIN_1 == Str(<<"l","a","t","i","n","-","1">>)
UTF_8_UPPER == Str(<<"U","T","F","-","8">>)
E_ACUTE_UTF_8 == Str(<<"%","C","3","%","A","9">>)
E_ACUTE_LATIN_1 == Str(<<"%","E","9">>)
\* a=x  a*0*=UTF-8''%C3%A9  a*1=%C3%A9  a*1*=latin-1''%E9  a*1=Y
\* a*=UTF-8''%C3%A9  b*0=%E9  B=Z  b*1*=latin-1''X
ParamPool ==
    {Param(Str(<<"a">>), None, None, Str(<<"x">>)),
     Param(Str(<<"a">>), Str(<<"0">>), UTF_8_UPPER, E_ACUTE_UTF_8),
     Param(Str(<<"a">>), Str(<<"1">>), None, E_ACUTE_UTF_8),
     Param(Str(<<"a">>), Str(<<"1">>), LATIN_1, E_ACUTE_LATIN_1),
     Param(Str(<<"a">>), Str(<<"1">>), None, Str(<<"Y">>)),
     Param(Str(<<"a">>), None, UTF_8_UPPER, E_ACUTE_UTF_8),
     Param(Str(<<"b">>), Str(<<"0">>), None, E_ACUTE_LATIN_1),
     Param(Str(<<"B">>), None, None, Str(<<"Z">>)),
     Param(Str(<<"b">>), Str(<<"1">>), LATIN_1, Str(<<"X">>))}
MaxParams == 2
ParamSeqs == UNION {[1..n -> ParamPool] : n \in 0..MaxParams}
ParamInputs ==
    {HeaderInput("params", <<>>, 0, ps, Str(<<"f">>) \o ParamsText(ps)) : ps \in ParamSeqs}

\* type; a=1; b=2 and Type; A=Xy; B="Z"
TYPE_A_B == Str(<<"t","y","p","e",";"," ","a","=","1",";"," ","b","=","2">>)
CAPITALS ==
    Str(<<"T","y","p","e",";"," ","A","=","X","y",";"," ","B","=","\"","Z","\"">>)

\* Header values given as they are: absent, empty, only a space, no token
\* before the first parameter, and tokens and keys in capitals.
RawValues ==
    {None, <<>>, <<32>>,
     Str(<<";","a","=","1">>),
     TYPE_A_B, CAPITALS,
     Str(<<" ","T","E","X","T","/","H","t","m","l"," ",";","K","e","Y","=","V">>),
     Str(<<"T",";"," ","K","E","Y">>),
     Str(<<"A",",","B",";"," ","x","=","1">>)}
RawInputs == {HeaderInput("raw", <<>>, 0, <<>>, v) : v \in RawValues}

OptionInputs == ContinuationInputs \cup ParamInputs \cup RawInputs

OptionsHeaderInit ==
    /\ \E h \in OptionInputs : StartWith(h, h.text, NoLimit)
    /\ cut = 0
    /\ pc = "options"

\* parse_options_header(value), r being what the call returns.
OptionsParsed(value, r) ==
    /\ header' = value
    /\ parsed' = r
    /\ last' = IF r.ok THEN "parsed" ELSE "parse_options_header"
    /\ pc' = "parsed"
    /\ UNCHANGED <<input, msg, decoder, fed, eof, events, sizeFail, partFail, cut,
                   encoding, parsing>>

ParseOptionsHeader ==
    /\ pc = "options"
    /\ OptionsParsed(msg, parse_options_header(msg))

OptionsHeaderNext == ParseOptionsHeader

OptionsHeader == OptionsHeaderInit /\ [][OptionsHeaderNext]_vars

(***************************************************************************)
(* Properties.                                                             *)
(***************************************************************************)
\* The events of a well-formed message: Preamble, for each part its Field or
\* File event and one Data event with the whole body, Epilogue.
RECURSIVE PartEvents(_)
PartEvents(parts) ==
    IF parts = <<>> THEN <<>>
    ELSE <<Head(parts).expect, DataEvent(Head(parts).body, FALSE)>>
         \o PartEvents(Tail(parts))

ExpectedEvents(m) ==
    <<PreambleEvent(m.pre)>> \o PartEvents(m.parts) \o <<EpilogueEvent(m.epi)>>

IsPrefix(s, t) == Len(s) <= Len(t) /\ SubSeq(t, 1, Len(s)) = s
IsSuffix(s, t) == Len(s) <= Len(t) /\ SubSeq(t, Len(t) - Len(s) + 1, Len(t)) = s

\* Each run of Data events that continue one another (more_data = True
\* followed by the next Data event) replaced by one Data event.
RECURSIVE MergeData(_)
MergeData(evs) ==
    IF Len(evs) < 2 THEN evs
    ELSE IF evs[1].type = "Data" /\ evs[1].more_data /\ evs[2].type = "Data"
    THEN MergeData(<<DataEvent(evs[1].data \o evs[2].data, evs[2].more_data)>>
                   \o Tail(Tail(evs)))
    ELSE <<evs[1]>> \o MergeData(Tail(evs))

\* s and t are the same sequence, but for a last Epilogue of s that carries
\* a leading part of the bytes the last Epilogue of t carries.
SameButEpilogueTail(s, t) ==
    /\ Len(s) = Len(t)
    /\ \A i \in 1..Len(s) :
         \/ s[i] = t[i]
         \/ /\ i = Len(s)
            /\ s[i].type = "Epilogue" /\ t[i].type = "Epilogue"
            /\ IsPrefix(s[i].data, t[i].data)

\* The caller of TwoChunks and the caller who appends the message in one
\* chunk both had their appends accepted.
AppendsAccepted ==
    /\ ~sizeFail.failed
    /\ ~call(MultipartDecoder(BOUNDARY, decoder.max_size), msg).raised

\* The positions of the Field and File events, and the j-th of them.
HeaderPositions(evs) == {i \in 1..Len(evs) : evs[i].type \in {"Field", "File"}}
NthHeader(evs, j) ==
    CHOOSE i \in HeaderPositions(evs) :
        Cardinality({h \in HeaderPositions(evs) : h <= i}) = j

\* The header block has a Content-Disposition header, in whatever letter
\* case, with a non-empty value.
HasContentDisposition(block) ==
    LET h == parse_headers(block).headers
    IN  \E i \in 1..Len(h) :
            lower(h[i][1]) = lower(CONTENT_DISPOSITION) /\ h[i][2] # <<>>

\* C1 (Spec): once a message written the way the encoder writes it has been
\* appended in full, in whatever chunks, and the decoder has returned its
\* Epilogue, a fresh encoder sent the decoder's events in order has written
\* the message's bytes exactly.  The message whose first delimiter is not
\* preceded by a line break comes back with a line break in front.
C1_RoundTrip ==
    (input.canonical /\ eof /\ decoder.processing_stage = "COMPLETE")
        => send_events("PREAMBLE", BOUNDARY, events, <<>>)
               = [stage |-> "COMPLETE", data |-> msg, raised |-> ""]

\* C2 as stated (TwoChunks): the events of the message split at any offset
\* are the events of the message in one chunk.  A split inside a part body
\* gives two Data events where one chunk gives one.
C2_SplitEventsIdentical ==
    (pc = "done" /\ AppendsAccepted)
        => events = OneChunk(BOUNDARY, decoder.max_size, msg).events

\* C2 amended (TwoChunks): with each part's run of Data events merged into
\* one Data event, the events of the message split at any offset are the
\* events of the message in one chunk, but for an Epilogue that may carry
\* only a leading part of the one-chunk Epilogue's bytes.
C2_SplitEventsAgree ==
    (pc = "done" /\ AppendsAccepted)
        => SameButEpilogueTail(
               MergeData(events),
               MergeData(OneChunk(BOUNDARY, decoder.max_size, msg).events))

\* C2: a split inside a part body, whose Data events differ from those of
\* the message in one chunk.
C2_SplitInBody ==
    /\ pc = "done" /\ AppendsAccepted
    /\ 0 < cut /\ cut < Len(msg)
    /\ \E i \in 1..Len(events) : events[i].type = "Data" /\ events[i].more_data
    /\ events # OneChunk(BOUNDARY, decoder.max_size, msg).events

\* C3 (TwoChunks, the message in one chunk): for a well-formed message
\* appended in full and followed by the end-of-input marker, next_event
\* returns the Preamble with the bytes before the first delimiter, for each
\* part its Field or File event and one Data event with the whole body and
\* more_data = False, then the Epilogue with the bytes after the final
\* delimiter; before the caller is done the events are a prefix of these.
C3_WholeMessageEvents ==
    (cut = Len(msg) /\ input.wf /\ ~sizeFail.failed /\ pc # "first")
        => /\ IsPrefix(events, ExpectedEvents(input))
           /\ pc = "done" => events = ExpectedEvents(input)

\* C3: the longest message, in one chunk, drawn to its Epilogue.
C3_WholeMessageDrawn ==
    /\ cut = Len(msg) /\ input.wf /\ pc = "done"
    /\ Len(input.parts) = MaxParts
    /\ Len(events) = 2 + 2 * MaxParts
    /\ events[Len(events)].type = "Epilogue"

\* C4 (Spec): a Data event comes only after a Field or File event or after a
\* Data event with more_data = True; a Field, File or Epilogue event comes
\* only after the Preamble or after a Data event with more_data = False.
C4_DataBetweenParts ==
    \A i \in 2..Len(events) :
        /\ events[i].type = "Data"
             => \/ events[i - 1].type \in {"Field", "File"}
                \/ events[i - 1].type = "Data" /\ events[i - 1].more_data
        /\ events[i].type \in {"Field", "File", "Epilogue"}
             => \/ events[i - 1].type = "Preamble"
                \/ events[i - 1].type = "Data" /\ ~events[i - 1].more_data
        /\ events[i].type # "Preamble"

\* C4: a part body returned in two Data events, followed by the next part
\* and, in the end, the Epilogue.
C4_ChunkedPartThenPart ==
    /\ Len(events) > 3
    /\ events[Len(events)].type = "Epilogue"
    /\ \E i \in 1..(Len(events) - 2) :
         /\ events[i].type = "Data" /\ events[i].more_data
         /\ events[i + 1].type = "Data" /\ ~events[i + 1].more_data
         /\ events[i + 2].type = "File"

\* C5 (Spec): for a part with an empty body, the event returned after the
\* part's Field or File event is Data(b"", more_data=False).
C5_EmptyBodyData ==
    input.wf =>
        \A j \in 1..Len(input.parts) :
            (/\ input.parts[j].body = <<>>
             /\ Cardinality(HeaderPositions(events)) >= j
             /\ Len(events) > NthHeader(events, j))
                => events[NthHeader(events, j) + 1] = DataEvent(<<>>, FALSE)

\* C5: the empty Data event of an empty-bodied File part has been returned,
\* the message having come in more than one chunk.
C5_EmptyBodyReturned ==
    /\ input.wf
    /\ \E j \in 1..Len(input.parts) :
         /\ input.parts[j].body = <<>>
         /\ Cardinality(HeaderPositions(events)) >= j
         /\ Len(events) > NthHeader(events, j)
         /\ events[NthHeader(events, j)].type = "File"
         /\ events[NthHeader(events, j) + 1] = DataEvent(<<>>, FALSE)

\* C6 (TwoChunks, the message in one chunk): when max_size is smaller than
\* the message and the message is appended in one call, the call raises
\* RequestEntityTooLarge, nothing is buffered, and next_event has returned
\* and returns no event.
C6_OversizeAppendFails ==
    (/\ cut = Len(msg) /\ pc # "first"
     /\ decoder.max_size # NoLimit /\ decoder.max_size < Len(msg))
        => /\ sizeFail.failed
           /\ pc = "drain1" => last = "RequestEntityTooLarge"
           /\ fed = 0 /\ decoder.buffer = <<>>
           /\ events = <<>>
           /\ next_event(decoder).event = NoEvent

\* C6: the oversize append has raised and the caller has drawn in vain.
C6_OversizeAppendFailed ==
    /\ cut = Len(msg) /\ pc = "done"
    /\ decoder.max_size # NoLimit /\ decoder.max_size < Len(msg)
    /\ sizeFail.failed /\ last = "none"

\* C7 (Spec): the bytes accepted by the appends never exceed max_size.  The
\* check in __call__ is against the bytes buffered, which next_event
\* removes.
C7_MessageBudget ==
    decoder.max_size # NoLimit => fed <= decoder.max_size

\* C8 (Spec): after an append has raised RequestEntityTooLarge, next_event
\* returns no event and no append is accepted.  The failed call changes
\* nothing, so the decoder goes on as before.
C8_NoProgressAfterSizeError ==
    sizeFail.failed => ~sizeFail.event /\ ~sizeFail.accepted

\* C9 (Spec): a message each of whose parts has a Content-Disposition
\* header with a non-empty value, in whatever letter case, never makes
\* next_event raise the missing-header error.  Only the spellings
\* Content-Disposition and content-disposition are looked up.
C9_AnyLetterCase ==
    (\A j \in 1..Len(input.parts) : HasContentDisposition(input.parts[j].block))
        => last # MISSING_CONTENT_DISPOSITION

\* C10 (Spec): after next_event has raised for a part without
\* Content-Disposition, no later call returns an event.  The stage stays
\* PART with the header block removed, so what follows is read as a header
\* block.
C10_MissingHeaderFatal ==
    partFail.failed => ~partFail.event


\* C11 (Spec): next_event raises nothing but the error for a missing
\* Content-Disposition header: a header line without a colon and an extended
\* parameter in an unknown or undecodable character set are passed over.
C11_OnlyTwoErrors ==
    last \notin {"ValueError: unpack", "parse_options_header"}

\* C12 (Spec): an Epilogue event is returned only after the caller has
\* signalled the end of the input; until then next_event in the EPILOGUE stage
\* returns nothing.  next_event returns the Epilogue on its first call in the
\* EPILOGUE stage, and decoder(None) leaves no trace in the decoder.
C12_EpilogueAfterEndOfInput ==
    (events # <<>> /\ events[Len(events)].type = "Epilogue") => eof

\* C13 (Spec): once the whole of a well-formed message has been appended and
\* the decoder is COMPLETE, the Epilogue it returned ends with the bytes that
\* follow the final delimiter's line: none of them is dropped.  Bytes
\* appended after the Epilogue was returned stay in the buffer of the
\* COMPLETE decoder.
C13_EpilogueCarriesAll ==
    (input.wf /\ fed = Len(msg) /\ decoder.processing_stage = "COMPLETE")
        => /\ events[Len(events)].type = "Epilogue"
           /\ IsSuffix(input.epi, events[Len(events)].data)

\* C14 (Live): when the input has ended with the decoder in the DATA stage,
\* the decoder is eventually COMPLETE, having returned an Epilogue.  A message
\* cut off before its final delimiter leaves the decoder in DATA for ever:
\* nothing but a final delimiter makes it leave that stage.
C14_EndOfInputInData ==
    (eof /\ decoder.processing_stage = "DATA")
        ~> (decoder.processing_stage = "COMPLETE"
            /\ events[Len(events)].type = "Epilogue")

\* C15 (Spec): COMPLETE is terminal.  No step taken by a COMPLETE decoder, be
\* it an append, the end-of-input marker or next_event, changes the stage or
\* returns an event.
C15_CompleteTerminal ==
    [][decoder.processing_stage = "COMPLETE"
         => decoder'.processing_stage = "COMPLETE" /\ events' = events]_vars

\* C15: bytes were appended to a COMPLETE decoder, and next_event has been
\* called since and returned nothing.
C15_AppendedAfterComplete ==
    /\ decoder.processing_stage = "COMPLETE"
    /\ decoder.buffer # <<>>
    /\ last = "none"

\* The table of event types and stages of the encoder: the stages in which
\* send_event takes an event of the type, and the stage it leaves.
TableStages(type) ==
    CASE type = "Preamble" -> {"PREAMBLE"}
      [] type \in {"Field", "File"} -> {"PREAMBLE", "PART", "DATA"}
      [] type = "Data" -> {"DATA"}
      [] type = "Epilogue" -> {"PREAMBLE", "PART", "DATA", "EPILOGUE", "COMPLETE"}
TableNext(type) ==
    CASE type = "Preamble" -> "PART"
      [] type \in {"Field", "File", "Data"} -> "DATA"
      [] type = "Epilogue" -> "COMPLETE"

\* C16 (Encoder): every call of send_event follows the table.  An event sent
\* in one of its stages raises no sequencing error and leaves the encoder in
\* the table's next stage; in any other stage the call raises the sequencing
\* error, and the stage and the bytes written stay as they were.
C16_SequencingTable ==
    [][Len(events') > Len(events) =>
         IF encoder.processing_stage \in TableStages(events'[Len(events')].type)
         THEN /\ last' # "ValueError"
              /\ encoder'.processing_stage = TableNext(events'[Len(events')].type)
         ELSE /\ last' = "ValueError"
              /\ encoder' = encoder
              /\ written' = written]_vars

\* C16: a File and a Data event were taken in turn and a Preamble event,
\* sent in the DATA stage, was refused.
C16_RefusedInData ==
    /\ pc = "encoder"
    /\ Len(events) = 3
    /\ events[1].type = "File" /\ events[2].type = "Data"
    /\ events[3].type = "Preamble"
    /\ encoder.processing_stage = "DATA"
    /\ last = "ValueError"

\* C17 (Spec): the events the decoder has returned so far, sent in order to a
\* fresh encoder, raise no sequencing error; when the last of them is the
\* Epilogue the encoder has accepted every one of them and is left in
\* COMPLETE.
C17_DecoderEventsEncodable ==
    LET r == send_events(MultipartEncoder(BOUNDARY).processing_stage, BOUNDARY,
                         events, <<>>)
    IN  /\ r.raised # "ValueError"
        /\ (events # <<>> /\ events[Len(events)].type = "Epilogue")
             => r.raised = "" /\ r.stage = "COMPLETE"

\* C17: the decoder has returned the events of a two-part message, one of
\* the bodies in more than one Data event, down to the Epilogue.
C17_TwoPartsDrawn ==
    /\ pc = "free"
    /\ events # <<>> /\ events[Len(events)].type = "Epilogue"
    /\ Cardinality(HeaderPositions(events)) = 2
    /\ \E i \in 1..Len(events) : events[i].type = "Data" /\ events[i].more_data

\* C18 (Spec): a part's body ends at the delimiter only.  For a well-formed
\* message, whose bodies may hold "--" before other bytes, or the boundary
\* without a line break before it or with another byte after it, every Data
\* event with more_data = False closes the whole body of a part: with the
\* Data events of a part merged, it carries the body of a part of the
\* message, neither less nor more.
C18_BodyEndsAtDelimiter ==
    input.wf =>
        \A i \in 1..Len(MergeData(events)) :
            (MergeData(events)[i].type = "Data" /\ ~MergeData(events)[i].more_data)
                => \E j \in 1..Len(input.parts) :
                       MergeData(events)[i].data = input.parts[j].body

\* C18: of the body that holds the boundary with no line break before it,
\* the bytes up to and including the boundary have been returned in a Data
\* event with more_data = True, and the rest of the body since.
C18_UnbrokenBodyReturned ==
    /\ pc = "free"
    /\ Len(input.parts) = 1 /\ input.parts[1].body = UNBROKEN_BODY
    /\ Len(events) > 3
    /\ events[3].type = "Data" /\ events[3].more_data
    /\ Contains(events[3].data, DASHES \o BOUNDARY)
    /\ events[Len(events)].type = "Data" /\ ~events[Len(events)].more_data

\* C19 (TwoChunks, next_event called after every append until it returns
\* nothing): in the PREAMBLE stage the search for the delimiter started at
\* search_position finds the match a search from offset 0 finds, and so does
\* the search for the blank line in the PART stage.  A first delimiter
\* followed by spaces, split before its line break, starts before the
\* cursor.
C19_CursorFindsSameMatch ==
    /\ decoder.processing_stage = "PREAMBLE"
         => preamble_re_search(decoder.message_boundary, decoder.buffer,
                               decoder.search_position)
            = preamble_re_search(decoder.message_boundary, decoder.buffer, 0)
    /\ decoder.processing_stage = "PART"
         => BLANK_LINE_RE_search(decoder.buffer, decoder.search_position)
            = BLANK_LINE_RE_search(decoder.buffer, 0)

\* The File events among the events, the bytes of the Data events that
\* follow an event, and whether the last of them has more_data = False.
FilePositions(evs) == {i \in 1..Len(evs) : evs[i].type = "File"}
NthFile(evs, n) ==
    CHOOSE i \in FilePositions(evs) :
        Cardinality({h \in FilePositions(evs) : h <= i}) = n
RECURSIVE DataRun(_, _)
DataRun(evs, i) ==
    IF i > Len(evs) \/ evs[i].type # "Data" THEN <<>>
    ELSE evs[i].data \o DataRun(evs, i + 1)
RECURSIVE RunClosed(_, _)
RunClosed(evs, i) ==
    /\ i <= Len(evs) /\ evs[i].type = "Data"
    /\ ~evs[i].more_data \/ RunClosed(evs, i + 1)

\* C20 (Form): after every turn of the parser's loop, each File event the
\* decoder has returned has its UploadFile, to which the bytes of the part's
\* Data events so far have been written, and on which seek(0) has been
\* called once if the part's Data event with more_data = False has been
\* returned and not at all otherwise; the strings among the items are those
\* of Field parts.  The UploadFile is a local variable of _parse_chunk: a
\* File part whose events are returned in two calls loses it.
C20_UploadSinkProtocol ==
    /\ Len(files) = Cardinality(FilePositions(events))
    /\ \A n \in 1..Len(files) :
         /\ files[n].file = DataRun(events, NthFile(events, n) + 1)
         /\ files[n].seeks = IF RunClosed(events, NthFile(events, n) + 1)
                             THEN <<0>> ELSE <<>>
    /\ Cardinality({i \in 1..Len(items) : items[i].kind = "str"})
         <= Cardinality({i \in 1..Len(events) : events[i].type = "Field"})

\* The item the parser owes for a part: the name and the decoded body of a
\* Field part, the name and an UploadFile with the file name and all the
\* body's bytes for a File part.
ItemOfPart(it, part, fs) ==
    /\ it.name = part.expect.name
    /\ part.expect.type = "Field" =>
         it = StrItem(part.expect.name, decode(part.body, UTF_8).text)
    /\ part.expect.type = "File" =>
         /\ it.kind = "file"
         /\ it.value \in 1..Len(fs)
         /\ fs[it.value].filename = part.expect.filename
         /\ fs[it.value].file = part.body

\* C21 (Form): when the parser's call returns, for any division of the body
\* into chunks, the items are one per part of the message, in the order of
\* the parts, each with the part's name and its complete body.  A part whose
\* events are returned in two calls of _parse_chunk loses its name and the
\* bytes of the earlier call.
C21_OneItemPerPart ==
    pc = "returned" =>
        /\ Len(items) = Len(input.parts)
        /\ \A i \in 1..Len(items) : ItemOfPart(items[i], input.parts[i], files)

\* C22 (Disposition): the decoder, given the lines the encoder wrote for a
\* Field or File event, returns an event of the same type with the same
\* name (and file name), whatever the name.  The encoder writes the name
\* between double quotes as it is: a double quote in the name ends the
\* quoted string, and two backslashes come back as one.
C22_DispositionRecovered ==
    last = "reparsed" =>
        /\ Len(events) = 3
        /\ events[3].type = events[1].type
        /\ events[3].name = events[1].name
        /\ events[1].type = "File" => events[3].filename = events[1].filename

\* C23 (OptionsHeader): a file name given as two continuation segments,
\* filename*0*=UTF-8''<first k characters> and filename*1=<the rest> of its
\* percent-encoded form, is parsed as the single parameter
\* filename*=UTF-8''<whole> is, wherever the split is.  Each segment is
\* decoded on its own: a split inside a character's escapes raises.
C23_ContinuationAsSingle ==
    (pc = "parsed" /\ input.kind = "continued")
        => parsed = parse_options_header(Single(input.name))

\* The first token of a header value: what follows the leading whitespace,
\* up to the first semicolon, comma or whitespace (a newline counts as a
\* comma).
FirstToken(value) ==
    LET i == Span(LAMBDA c : IsStrSpace(c) /\ c # LF, value, 1)
    IN  SubSeq(value, i,
               Span(LAMBDA c : ~IsStrSpace(c) /\ c \notin {59, 44}, value, i) - 1)

KeysLower(options) ==
    \A i \in 1..Len(options) : options[i][1] = lower(options[i][1])

\* C24 (OptionsHeader): parse_options_header returns ("", {}) for an absent
\* or empty value; for any other value it returns the first token as it
\* was written and a mapping whose keys are all in lower case and whose
\* values are as they were written: "type; a=1; b=2" gives "type" and
\* {a: "1", b: "2"}, 'Type; A=Xy; B="Z"' gives "Type" and {a: "Xy", b: "Z"}.
C24_OptionsHeaderResult ==
    pc = "parsed" =>
        /\ header \in {None, <<>>} =>
             parsed = [ok |-> TRUE, value |-> <<>>, options |-> <<>>]
        /\ parsed.ok => KeysLower(parsed.options)
        /\ (parsed.ok /\ header \notin {None, <<>>}) =>
             parsed.value = FirstToken(header)
        /\ header = TYPE_A_B =>
             parsed = [ok |-> TRUE, value |-> Str(<<"t","y","p","e">>),
                       options |-> <<<<Str(<<"a">>), Str(<<"1">>)>>,
                                     <<Str(<<"b">>), Str(<<"2">>)>>>>]
        /\ header = CAPITALS =>
             parsed = [ok |-> TRUE, value |-> Str(<<"T","y","p","e">>),
                       options |-> <<<<Str(<<"a">>), Str(<<"X","y">>)>>,
                                     <<Str(<<"b">>), Str(<<"Z">>)>>>>]

C24_CapitalsParsed == pc = "parsed" /\ header = CAPITALS /\ parsed.ok

\* The stage changes of the decoder.
StageEdges ==
    {<<"PREAMBLE", "PART">>, <<"PREAMBLE", "EPILOGUE">>, <<"PART", "DATA">>,
     <<"DATA", "PART">>, <<"DATA", "EPILOGUE">>, <<"EPILOGUE", "COMPLETE">>}

\* bytes without the line break characters it starts with.
RECURSIVE SkipLineBreak(_)
SkipLineBreak(bytes) ==
    IF bytes # <<>> /\ Head(bytes) \in {CR, LF} THEN SkipLineBreak(Tail(bytes))
    ELSE bytes

\* The bytes a step took from the front of the buffer after the data of the
\* event it returned: the delimiter.  It is the final one when "--" follows
\* the boundary.
FinalDelimiterTaken(before, after, event) ==
    IsPrefix(DASHES \o before.message_boundary \o DASHES,
             SkipLineBreak(SubSeq(before.buffer, Len(event.data) + 1,
                                  Len(before.buffer) - Len(after.buffer))))

\* C25 (Spec): the stage changes only along PREAMBLE->PART,
\* PREAMBLE->EPILOGUE, PART->DATA, DATA->PART, DATA->EPILOGUE and
\* EPILOGUE->COMPLETE; from PREAMBLE and DATA it goes to EPILOGUE when the
\* delimiter taken from the buffer is the final one and to PART otherwise;
\* a step that appends leaves the stage alone, and a step that changes the
\* stage is a call of next_event that returns an event.
C25_StageChanges ==
    [][/\ (fed' # fed \/ eof' # eof) =>
             decoder'.processing_stage = decoder.processing_stage
       /\ decoder'.processing_stage # decoder.processing_stage =>
             /\ <<decoder.processing_stage, decoder'.processing_stage>> \in StageEdges
             /\ Len(events') = Len(events) + 1
             /\ last' = "event"
             /\ decoder.processing_stage \in {"PREAMBLE", "DATA"} =>
                  (decoder'.processing_stage = "EPILOGUE"
                     <=> FinalDelimiterTaken(decoder, decoder', events'[Len(events')]))]_vars

\* C25: the decoder has gone through every stage, twice through PART and
\* DATA.
C25_AllStagesPassed ==
    /\ decoder.processing_stage = "COMPLETE"
    /\ Len(input.parts) = 2
    /\ Cardinality({i \in 1..Len(events) : events[i].type \in {"Field", "File"}}) = 2
    /\ eof

\* The 0-based index of the last b in buf, or the length of buf.
LastIndexOrLen(buf, b) ==
    IF \E i \in 1..Len(buf) : buf[i] = b
    THEN (CHOOSE i \in 1..Len(buf) :
             buf[i] = b /\ \A j \in (i + 1)..Len(buf) : buf[j] # b) - 1
    ELSE Len(buf)
SafeLength(buf) == Min({LastIndexOrLen(buf, LF), LastIndexOrLen(buf, CR)})

\* A line break followed by a leading part of "--" + boundary.
PartialDelimiters(boundary) ==
    {lb \o SubSeq(DASHES \o boundary, 1, k) :
        lb \in {CRLF, <<LF>>, <<CR>>}, k \in 0..Len(DASHES \o boundary)}

\* C26 (Spec): a call of next_event in the DATA stage, the buffer holding no
\* complete delimiter, returns the bytes before min(index of the last LF,
\* index of the last CR), the buffer's length standing for an absent one,
\* in a Data event with more_data = True, and nothing when there are none;
\* the rest stays in the buffer, so a line break and a leading part of the
\* delimiter at the end of the buffer are not returned as data.
C26_HoldsBackLineBreak ==
    [][(/\ decoder.processing_stage = "DATA"
        /\ last' \in {"event", "none"} /\ eof' = eof /\ fed' = fed
        /\ ~boundary_re_search(decoder.message_boundary, decoder.buffer).ok)
       => /\ decoder'.processing_stage = "DATA"
          /\ decoder'.buffer = From(decoder.buffer, SafeLength(decoder.buffer) + 1)
          /\ events' = IF SafeLength(decoder.buffer) = 0 THEN events
                       ELSE Append(events,
                                DataEvent(SubSeq(decoder.buffer, 1,
                                                 SafeLength(decoder.buffer)), TRUE))
          /\ \A t \in PartialDelimiters(decoder.message_boundary) :
                IsSuffix(t, decoder.buffer) => IsSuffix(t, decoder'.buffer)]_vars

\* C26: a Data event with more_data = True was returned while the buffer
\* ended with a line break and "--"; they are still in the buffer.
C26_PartialDelimiterKept ==
    /\ decoder.processing_stage = "DATA"
    /\ last = "event"
    /\ events[Len(events)].type = "Data" /\ events[Len(events)].more_data
    /\ decoder.buffer = CRLF \o DASHES

\* C27 (Spec): every Data event with more_data = True carries at least one
\* byte; a Data event without bytes has more_data = False.
C27_MoreDataNotEmpty ==
    \A i \in 1..Len(events) :
        (events[i].type = "Data" /\ events[i].more_data) => events[i].data # <<>>

\* C27: a part's bytes were returned with more_data = True, and the Data
\* event that ended the part carried none.
C27_EmptyAfterMore ==
    \E i \in 1..(Len(events) - 1) :
        /\ events[i].type = "Data" /\ events[i].more_data
        /\ events[i + 1] = DataEvent(<<>>, FALSE)

\* The options of the Content-Disposition header among an event's headers.
DispositionOptions(event) ==
    parse_options_header(content_disposition_of(event.headers)).options

\* C28 (Spec): a call of next_event in the PART stage that returns an event
\* returns a File event when the options of the part's Content-Disposition
\* header have the key filename, be its value empty, and a Field event
\* otherwise; the event's name is the option name, the empty string when
\* there is none; the stage is DATA afterwards.  No other call returns a
\* Field or File event.
C28_FileWhenFilename ==
    [][(/\ Len(events') = Len(events) + 1
        /\ \/ decoder.processing_stage = "PART"
           \/ events'[Len(events')].type \in {"Field", "File"})
       => /\ decoder.processing_stage = "PART"
          /\ decoder'.processing_stage = "DATA"
          /\ events'[Len(events')].type
               = IF dict_has(DispositionOptions(events'[Len(events')]), FILENAME)
                 THEN "File" ELSE "Field"
          /\ events'[Len(events')].name
               = dict_get(DispositionOptions(events'[Len(events')]), NAME, <<>>)
          /\ events'[Len(events')].type = "File" =>
               events'[Len(events')].filename
                 = dict_get(DispositionOptions(events'[Len(events')]), FILENAME, <<>>)]_vars

\* C28: a File event with an empty file name was returned.
C28_EmptyFilenameFile ==
    /\ events # <<>>
    /\ events[Len(events)].type = "File"
    /\ events[Len(events)].filename = <<>>
    /\ events[Len(events)].name = Str(<<"n">>)
    /\ decoder.processing_stage = "DATA"

\* The headers that are not Content-Disposition in any letter case, in
\* their order, each as the line name: value.
IsOtherHeader(h) == lower(h[1]) # lower(CONTENT_DISPOSITION)
OtherHeaderLines(headers) ==
    Flatten([i \in 1..Len(SelectSeq(headers, IsOtherHeader)) |->
                SelectSeq(headers, IsOtherHeader)[i][1] \o <<COLON, 32>>
                \o SelectSeq(headers, IsOtherHeader)[i][2] \o CRLF])

\* How many times pat occurs in bytes.
Occurrences(pat, bytes) ==
    Cardinality({i \in 1..Len(bytes) : StartsWith(bytes, i, pat)})

\* What a step of the encoder added to the bytes written.
JustWritten(before, after) == SubSeq(after, Len(before) + 1, Len(after))

\* C29 (Encoder): for a Field or File event the encoder writes the boundary
\* line, a Content-Disposition line made of the event's name (and file
\* name), the event's headers other than Content-Disposition in any letter
\* case, in their order, and a blank line; Content-Disposition is written
\* once.
C29_PartHeadersWritten ==
    [][(/\ last' = "sent"
        /\ Len(events') = Len(events) + 1
        /\ events'[Len(events')].type \in {"Field", "File"})
       => /\ JustWritten(written, written')
               = CRLF \o DASHES \o encoder.message_boundary \o CRLF
                 \o CONTENT_DISPOSITION
                 \o Str(<<":"," ","f","o","r","m","-","d","a","t","a",";"," ",
                          "n","a","m","e","=","\"">>)
                 \o events'[Len(events')].name \o <<QUOTE>>
                 \o (IF events'[Len(events')].type = "File"
                     THEN Str(<<";"," ","f","i","l","e","n","a","m","e","=","\"">>)
                          \o events'[Len(events')].filename \o <<QUOTE>>
                     ELSE <<>>)
                 \o CRLF \o OtherHeaderLines(events'[Len(events')].headers) \o CRLF
          /\ Occurrences(lower(CONTENT_DISPOSITION),
                         lower(JustWritten(written, written'))) = 1]_vars

\* C29: the Field event with Content-Disposition headers in two letter
\* cases among its headers was sent and written.
C29_MixedHeadersSent ==
    /\ pc = "encoder"
    /\ last = "sent"
    /\ events # <<>>
    /\ events[Len(events)] = FieldEvent(Str(<<"z">>), MIXED_HEADERS)

\* What the parameters ps give, read left to right: a parameter with an
\* index is appended to the value stored for its key and one without an
\* index replaces it; announced is the encoding announced last in the run
\* of parameters with an index, None after a parameter without one.
RECURSIVE ExpectedOptions(_, _, _)
ExpectedValue(ps, options, announced, enc, val) ==
    IF ~val.ok THEN [ok |-> FALSE, options |-> <<>>]
    ELSE ExpectedOptions(Tail(ps),
             dict_set(options, lower(Head(ps).key),
                      IF Head(ps).count = None THEN val.text
                      ELSE dict_get(options, lower(Head(ps).key), <<>>) \o val.text),
             IF Head(ps).count = None THEN None ELSE enc)
ExpectedDecoded(ps, options, announced, enc) ==
    ExpectedValue(ps, options, announced, enc,
                  IF enc = None THEN [ok |-> TRUE, text |-> Head(ps).value]
                  ELSE decode(unquote_to_bytes(Head(ps).value), enc))
ExpectedOptions(ps, options, announced) ==
    IF ps = <<>> THEN [ok |-> TRUE, options |-> options]
    ELSE ExpectedDecoded(ps, options, announced,
             IF Head(ps).count # None /\ Head(ps).encoding = None
             THEN announced ELSE Head(ps).encoding)

C31_DataIsBody ==
    input.wf =>
        \A j \in 1..Cardinality(HeaderPositions(events)) :
            /\ j <= Len(input.parts)
            /\ IsPrefix(DataRun(events, NthHeader(events, j) + 1),
                        input.parts[j].body)
            /\ RunClosed(events, NthHeader(events, j) + 1)
                 => DataRun(events, NthHeader(events, j) + 1) = input.parts[j].body

\* C31: the body of a part, with a line break and two dashes in it, has been
\* returned in more than one Data event, the last with more_data = False.
C31_BodyInSeveralEvents ==
    /\ pc = "free"
    /\ \E i \in 1..Len(events) - 2 :
         /\ events[i].type \in {"Field", "File"}
         /\ events[i + 1].type = "Data" /\ events[i + 1].more_data
         /\ events[i + 1].data # <<>>
         /\ RunClosed(events, i + 1)
         /\ DataRun(events, i + 1) = DASHES_BODY

\* C32 (Spec): of the events a decoder has returned, the first is a
\* Preamble and no other is; an Epilogue, if there is one, is the last
\* event: there is at most one and nothing is returned after it.
C32_PreambleFirstEpilogueLast ==
    /\ events # <<>> => events[1].type = "Preamble"
    /\ \A i \in 2..Len(events) : events[i].type # "Preamble"
    /\ \A i \in 1..Len(events) : events[i].type = "Epilogue" => i = Len(events)

\* C32: the whole message, which has a part, was appended; after its
\* Epilogue next_event was called again and returned nothing.
C32_CalledAfterEpilogue ==
    /\ Len(events) >= 4
    /\ events[1].type = "Preamble"
    /\ events[Len(events)].type = "Epilogue"
    /\ decoder.processing_stage = "COMPLETE"
    /\ last = "none"
    /\ fed = Len(msg)

\* C33 (Spec): a call that returns no event (the events returned and the
\* bytes accepted are as before) leaves the decoder's stage and buffer as
\* they were: bytes leave the buffer only in a call that returns an event.
\* _process_part removes the header block before it raises for a missing
\* Content-Disposition.
C33_NoEventNoChange ==
    [][(events' = events /\ fed' = fed)
       => /\ decoder'.buffer = decoder.buffer
          /\ decoder'.processing_stage = decoder.processing_stage]_vars

\* C34 (Spec): an append that raises RequestEntityTooLarge leaves the
\* decoder as it was, its buffer, stage and search_position included: no
\* byte of the rejected chunk is buffered or counted as accepted.
C34_FailedAppendNoChange ==
    [][(last' = "RequestEntityTooLarge" /\ eof' = eof)
       => /\ decoder' = decoder
          /\ fed' = fed
          /\ events' = events]_vars

\* C34: an append has just raised in the PART stage, with bytes in the
\* buffer and the search cursor moved by an earlier call of next_event.
C34_RejectedWithCursorSet ==
    /\ last = "RequestEntityTooLarge"
    /\ decoder.processing_stage = "PART"
    /\ decoder.search_position > 0
    /\ decoder.buffer # <<>>

\* C35 (Encoder): a send_event call that raises the sequencing error leaves
\* the encoder's stage, and the bytes written, as they were; every event is
\* then taken or refused as it would have been before the call.
C35_RefusalNoChange ==
    [][(Len(events') > Len(events) /\ last' = "ValueError")
       => /\ encoder'.processing_stage = encoder.processing_stage
          /\ written' = written
          /\ \A e \in EncoderEvents :
                send_event(encoder'.processing_stage, encoder'.message_boundary, e)
                  = send_event(encoder.processing_stage, encoder.message_boundary, e)]_vars

\* C35: a Data event was refused in the PART stage, after the Preamble, and
\* the Field event sent next was taken.
C35_TakenAfterRefusal ==
    /\ pc = "encoder"
    /\ Len(events) = 3
    /\ events[1].type = "Preamble" /\ events[2].type = "Data"
    /\ events[3].type = "Field"
    /\ last = "sent"
    /\ encoder.processing_stage = "DATA"
    /\ Len(written) > 1

\* C36 (Spec): in every state of the decoder search_position lies between 0
\* and the length of the buffer, and it is 0 in the DATA, EPILOGUE and
\* COMPLETE stages.  A call of next_event that raises for a missing
\* Content-Disposition has removed the header block and left the cursor
\* where the search before it had put it.
C36_CursorInBuffer ==
    /\ 0 <= decoder.search_position
    /\ decoder.search_position <= Len(decoder.buffer)
    /\ decoder.processing_stage \in {"DATA", "EPILOGUE", "COMPLETE"}
         => decoder.search_position = 0

====
